---- MODULE Spec2Model ----
(***************************************************************************)
(* Coherent Data Protocol (cdp-core): resonance math, classification       *)
(* table, CDP container codec, schema registry and structured codec.       *)
(*                                                                         *)
(* Number representation.  The code computes resonance values with 256-bit *)
(* mpfr arithmetic from eight constants of which alpha0 = 1 and            *)
(* alpha4 = 1/(2 pi), alpha5 = 2 pi.  An mpfr value is represented here by *)
(* its exponent vector over the six generators                             *)
(*   <<tribonacci, golden ratio, 1/2, 2 pi, alpha6, alpha7>>,              *)
(* so that products are exact.  Conversions out of mpfr are carried at a   *)
(* fixed precision: the 60-decimal key string by a 10^-4 logarithmic       *)
(* numeral (KeyOf), float64 by a 10^-3 fixed-point number (ToFloat).       *)
(***************************************************************************)
EXTENDS Integers, Naturals, Sequences, FiniteSets, TLC

VARIABLES
    cdp_pc,         \* "idle", "encoded" (a container is held), "decoded"
    cdp_data,       \* the buffer handed to CDPEncoder.encode
    cdp_container,  \* the container bytes, as written or as altered afterwards
    cdp_altered,    \* what was altered in the container: "none", "class", "index", "manifest",
                    \* "magic", "major", "minor", "truncated", "overrun", "shorter",
                    \* "longer", "checks", "reorder"
    cdp_result      \* what CDPDecoder.decode did with cdp_container

cdp_vars == << cdp_pc, cdp_data, cdp_container, cdp_altered, cdp_result >>

VARIABLES
    tbl_pc,         \* "start", "halted" (generate-map printed an error), "saved", "loaded", "looked"
    tbl_alpha,      \* the constant set constants.py holds
    tbl_groups,     \* what generate_and_verify_partition did
    tbl_file,       \* content of data/generated/resonance_map.json
    tbl_map,        \* the attributes of the ResonanceMap instance, if one was made
    tbl_class,      \* the class ResonanceMap: its _instance attribute and its calls
    tbl_lookup      \* the last forward lookup and the reverse lookup of its result

tbl_vars == << tbl_pc, tbl_alpha, tbl_groups, tbl_file, tbl_map, tbl_class, tbl_lookup >>

VARIABLES
    sch_pc,         \* "start", "loaded" (Schema.__init__ returned or raised)
    sch_raw,        \* raw_schema, the parsed JSON document
    sch_schema,     \* the Schema object, or the exception __init__ raised
    sch_found       \* what the last get_field_by_name / get_field_by_grade returned

sch_vars == << sch_pc, sch_raw, sch_schema, sch_found >>

VARIABLES
    rec_pc,         \* "start", "encoded", "verified", "projected", "failed"
    rec_writer,     \* the Schema the record is encoded under
    rec_reader,     \* the Schema handed to project
    rec_object,     \* data_object: field name -> value
    rec_encoded,    \* what StructuredEncoder.encode did
    rec_altered,    \* "none", "stream" (a hand-made stream inside a sound container),
                    \* "payload" (the container was damaged after encode)
    rec_decoder,    \* the StructuredDecoder, or the exception its construction raised
    rec_grades,     \* grades_to_extract of the last project call
    rec_result      \* what the last project call did

rec_vars == << rec_pc, rec_writer, rec_reader, rec_object, rec_encoded, rec_altered,
               rec_decoder, rec_grades, rec_result >>

VARIABLES
    thr_pc,         \* per thread: where its encode or decode call stands
    thr_call,       \* per thread: the call it makes, [kind, input]
    thr_buf,        \* per buffer slot: the local objects of the call that uses the slot
    thr_out,        \* per thread: what its call returned or raised
    thr_table,      \* the table of the module-level resonance_map, read by every call
    thr_cache       \* the bytes whose resonance the cache of calculate_resonance holds

thr_vars == << thr_pc, thr_call, thr_buf, thr_out, thr_table, thr_cache >>

vars == << cdp_vars, tbl_vars, sch_vars, rec_vars, thr_vars >>

\* what the operations of one component leave alone
outside_cdp == << tbl_vars, sch_vars, rec_vars, thr_vars >>

outside_tbl == << cdp_vars, sch_vars, rec_vars, thr_vars >>

outside_sch == << cdp_vars, tbl_vars, rec_vars, thr_vars >>

outside_rec == << cdp_vars, tbl_vars, sch_vars, thr_vars >>

outside_thr == << cdp_vars, tbl_vars, sch_vars, rec_vars >>

Bytes == 0..255

Generators == 1..6

\* the list tabulated: element i is computed once and stored
Stored(f, n) == SubSeq(f, 1, n)

\* ---------------------------------------------------------------- constants.py

One == Stored([k \in Generators |-> 0], 6)

Gen(g) == Stored([k \in Generators |-> IF k = g THEN 1 ELSE 0], 6)

GenInv(g) == Stored([k \in Generators |-> IF k = g THEN -1 ELSE 0], 6)

\* ALPHA_CONSTANTS[i], i = 0..7, stored at position i + 1
ALPHA_CONSTANTS == << One, Gen(1), Gen(2), Gen(3), GenInv(4), Gen(4), Gen(5), Gen(6) >>

SP_PRIME_P == 11

get_bit(byte_value, bit_index) == (byte_value \div (2 ^ bit_index)) % 2

\* mpfr product
MpfrMul(x, y) == Stored([k \in Generators |-> x[k] + y[k]], 6)

\* ---------------------------------------------------------------- core_math.py

\* the loop of calculate_resonance, over the constant set alpha
RECURSIVE ResonanceFrom(_, _, _, _)
ResonanceFrom(alpha, byte_value, i, resonance) ==
    IF i > 7 THEN resonance
    ELSE ResonanceFrom(alpha, byte_value, i + 1,
                       IF get_bit(byte_value, i) = 1
                       THEN MpfrMul(resonance, alpha[i + 1])
                       ELSE resonance)

\* the 256 cached values of calculate_resonance under the constant set alpha
Resonances(alpha) == Stored([n \in 1..256 |-> ResonanceFrom(alpha, n - 1, 0, One)], 256)

ResonanceTable == Resonances(ALPHA_CONSTANTS)

calculate_resonance(byte_value) == ResonanceTable[byte_value + 1]

\* ------------------------------------------------------- numeric projections

\* natural logarithm of each generator, in units of 10^-4
GeneratorLn == << 6094, 4812, -6931, 18379, -16114, -42591 >>

\* value of each generator, in units of 10^-3
GeneratorMilli == << 1839, 1618, 500, 6283, 200, 14 >>

\* 1 / (2 pi) in units of 10^-3
TwoPiInvMilli == 159

MilliMul(x, y) == (x * y + 500) \div 1000

RECURSIVE MilliPow(_, _, _)
MilliPow(acc, g, e) ==
    IF e = 0 THEN acc
    ELSE IF e > 0 THEN MilliPow(MilliMul(acc, GeneratorMilli[g]), g, e - 1)
    ELSE MilliPow(MilliMul(acc, TwoPiInvMilli), g, e + 1)

RECURSIVE MilliFrom(_, _, _)
MilliFrom(x, g, acc) ==
    IF g > 6 THEN acc ELSE MilliFrom(x, g + 1, MilliPow(acc, g, x[g]))

\* float(x) of an mpfr x
ToFloat(x) == MilliFrom(x, 1, 1000)

RECURSIVE LnFrom(_, _)
LnFrom(x, g) == IF g > 6 THEN 0 ELSE x[g] * GeneratorLn[g] + LnFrom(x, g + 1)

\* f"{r_val:.60f}": the fixed-precision numeral used as grouping key
KeyOf(r_val) == LnFrom(r_val, 1)

\* -------------------------------------------------------------- generate_map.py

\* members of the group with key k
GroupMembers(res, k) == {b \in Bytes : KeyOf(res[b + 1]) = k}

CountOfSize(groups, n) == Cardinality({k \in DOMAIN groups : Cardinality(groups[k]) = n})

\* a verification that counts the classes and not their sizes
generate_and_verify_partition_sizes_unchecked(res) ==
    LET keys == {KeyOf(res[b + 1]) : b \in Bytes}
        resonance_groups == [k \in keys |-> GroupMembers(res, k)]
    IN  IF Cardinality(keys) # 96 THEN [raised |-> TRUE, why |-> "classes"]
        ELSE [raised |-> FALSE, groups |-> resonance_groups]

\* returns [raised |-> FALSE, groups |-> ...] or [raised |-> TRUE, why |-> ...]
generate_and_verify_partition(res) ==
    LET keys == {KeyOf(res[b + 1]) : b \in Bytes}
        resonance_groups == [k \in keys |-> GroupMembers(res, k)]
        num_classes == Cardinality(keys)
        num_quads == CountOfSize(resonance_groups, 4)
        num_doubles == CountOfSize(resonance_groups, 2)
    IN  IF num_classes # 96 THEN [raised |-> TRUE, why |-> "classes"]
        ELSE IF num_quads # 32 THEN [raised |-> TRUE, why |-> "quads"]
        ELSE IF num_doubles # 64 THEN [raised |-> TRUE, why |-> "doubles"]
        ELSE IF num_quads * 4 + num_doubles * 2 # 256 THEN [raised |-> TRUE, why |-> "total"]
        ELSE [raised |-> FALSE, groups |-> resonance_groups]

Min(S) == CHOOSE x \in S : \A y \in S : x <= y

\* sorted(S) as a list, ascending: element i has i - 1 smaller elements
Sorted(S) ==
    Stored([i \in 1..Cardinality(S) |->
                CHOOSE e \in S : Cardinality({y \in S : y < e}) = i - 1],
           Cardinality(S))

\* an enumeration that numbers every member 0
IndexInFirst(seq, x) == 0

\* s.index(x), from 0
IndexIn(seq, x) == (CHOOSE i \in 1..Len(seq) : seq[i] = x) - 1

\* class_to_byte[c + 1] is the member list of class c and byte_to_class[b + 1]
\* the entry of byte b; keys sort by float(k), their numeric value
create_canonical_map(resonance_groups) ==
    LET sorted_r_keys == Sorted(DOMAIN resonance_groups)
        class_to_byte == Stored([c \in 1..96 |->
                                    IF c <= Len(sorted_r_keys)
                                    THEN Sorted(resonance_groups[sorted_r_keys[c]])
                                    ELSE << >>], 96)
        ClassOf(b) == CHOOSE c \in 1..96 : \E i \in 1..Len(class_to_byte[c]) :
                                              class_to_byte[c][i] = b
        byte_to_class == Stored([n \in 1..256 |->
                                    [class_id |-> ClassOf(n - 1) - 1,
                                     index |-> IndexIn(class_to_byte[ClassOf(n - 1)], n - 1)]],
                                256)
    IN  [byte_to_class |-> byte_to_class, class_to_byte |-> class_to_byte]

\* str(k) of 0 <= k <= 255, as its decimal digits
Str(k) ==
    IF k < 10 THEN << k >>
    ELSE IF k < 100 THEN << k \div 10, k % 10 >>
    ELSE << k \div 100, (k \div 10) % 10, k % 10 >>

\* int(s) of a decimal numeral
RECURSIVE Int_(_)
Int_(s) == IF Len(s) = 0 THEN 0 ELSE 10 * Int_(SubSeq(s, 1, Len(s) - 1)) + s[Len(s)]

\* the JSON document written: byte keys become strings
save_map_to_file(canonical_map) ==
    [byte_to_class |-> [s \in {Str(k) : k \in Bytes} |->
                            canonical_map.byte_to_class[Int_(s) + 1]],
     class_to_byte |-> canonical_map.class_to_byte]

\* ---------------------------------------------------------------- map_loader.py

\* string keys back to integers; RuntimeError when the file is absent, or
\* unless 256 bytes and 96 classes. Both attributes are assigned before the
\* sizes are compared, so they stay on the object when the comparison raises;
\* the files of the model name the bytes 0..n-1.
_load_map(file) ==
    LET keys == DOMAIN file.byte_to_class
        KeyFor(b) == CHOOSE k \in keys : Int_(k) = b
    IN  IF keys = {} /\ Len(file.class_to_byte) = 0
        THEN [raised |-> TRUE, byte_to_class |-> << >>, class_to_byte |-> << >>]
        ELSE IF Cardinality(keys) # 256 \/ Len(file.class_to_byte) # 96
        THEN [raised |-> TRUE,
              byte_to_class |-> Stored([n \in 1..Cardinality(keys) |->
                                           file.byte_to_class[KeyFor(n - 1)]],
                                       Cardinality(keys)),
              class_to_byte |-> file.class_to_byte]
        ELSE [raised |-> FALSE,
              byte_to_class |-> Stored([n \in 1..256 |-> file.byte_to_class[KeyFor(n - 1)]],
                                       256),
              class_to_byte |-> file.class_to_byte]

\* the class with no instance yet (_instance = None) and no call made
NoInstance == [instance |-> "None", loads |-> 0, calls |-> 0, last |-> "none"]

\* ResonanceMap.__new__ on the class state cls and the object attributes map:
\* the first call stores the new object in _instance and then loads the file
ResonanceMapNew(cls, map, file) ==
    IF cls.instance = "None"
    THEN LET loaded == _load_map(file)
         IN  [cls |-> [instance |-> "object", loads |-> cls.loads + 1,
                       calls |-> cls.calls + 1,
                       last |-> IF loaded.raised THEN "RuntimeError" ELSE "returned"],
              map |-> loaded]
    ELSE [cls |-> [cls EXCEPT !.calls = cls.calls + 1, !.last = "returned"],
          map |-> map]

get_class_info(map, byte_value) == map.byte_to_class[byte_value + 1]

\* IndexError of a list subscript, in place of the byte
IndexError == 0 - 1

\* a lookup that ignores the index and returns the first member of the class
get_byte_from_class_first(map, class_id, index) ==
    IF class_id + 1 \in 1..Len(map.class_to_byte)
       /\ index + 1 \in 1..Len(map.class_to_byte[class_id + 1])
    THEN map.class_to_byte[class_id + 1][1]
    ELSE 0 - 1

\* class_to_byte[class_id][index]; IndexError when either subscript is out of range
get_byte_from_class(map, class_id, index) ==
    IF class_id + 1 \in 1..Len(map.class_to_byte)
       /\ index + 1 \in 1..Len(map.class_to_byte[class_id + 1])
    THEN map.class_to_byte[class_id + 1][index + 1]
    ELSE IndexError

\* the table the module-level singleton holds: the generated map, loaded from its file
resonance_map ==
    _load_map(save_map_to_file(
        create_canonical_map(generate_and_verify_partition(ResonanceTable).groups)))

\* ------------------------------------------------------------- byte strings

\* largest integer of the model; a wider unpacked value saturates here
IntMax == (2 ^ 30 - 1) + 2 ^ 30

\* byte k (0 = least significant) of a non-negative v < 2^31
Digit(v, k) == IF k >= 4 THEN 0 ELSE (v \div (256 ^ k)) % 256

\* v.to_bytes(n, 'big') and struct.pack of an n-byte unsigned field
ToBytesBE(v, n) == [i \in 1..n |-> Digit(v, n - i)]

\* v.to_bytes(n, 'little')
ToBytesLE(v, n) == [i \in 1..n |-> Digit(v, i - 1)]

RECURSIVE FromBytesBEAcc(_, _, _)
FromBytesBEAcc(s, i, acc) ==
    IF i > Len(s) THEN acc
    ELSE IF acc > (IntMax - s[i]) \div 256 THEN IntMax
    ELSE FromBytesBEAcc(s, i + 1, acc * 256 + s[i])

\* int.from_bytes(s, 'big') and struct.unpack of an unsigned field
FromBytesBE(s) == FromBytesBEAcc(s, 1, 0)

Reverse(s) == [i \in 1..Len(s) |-> s[Len(s) + 1 - i]]

\* int.from_bytes(s, 'little')
FromBytesLE(s) == FromBytesBE(Reverse(s))

\* Python slice s[a:b] for 0 <= a, 0 <= b
Slice(s, a, b) ==
    LET lo == IF a > Len(s) THEN Len(s) ELSE a
        hi == IF b > Len(s) THEN Len(s) ELSE b
    IN  SubSeq(s, lo + 1, hi)

\* sum of terms[lo..hi]; integer addition is associative, so the range is
\* halved to keep the evaluation shallow
RECURSIVE RangeSum(_, _, _)
RangeSum(terms, lo, hi) ==
    IF hi < lo THEN 0
    ELSE IF lo = hi THEN terms[lo]
    ELSE LET mid == (lo + hi) \div 2
         IN  RangeSum(terms, lo, mid) + RangeSum(terms, mid + 1, hi)

\* ------------------------------------------------------------------ zstandard
\* A frame is the magic number, the content size and the content as one raw
\* block; decompress rejects anything else.

ZSTD_MAGIC == << 40, 181, 47, 253 >>

ZstdCompress(s) == ZSTD_MAGIC \o ToBytesBE(Len(s), 4) \o s

ZstdDecompress(f) ==
    IF /\ Len(f) >= 8
       /\ SubSeq(f, 1, 4) = ZSTD_MAGIC
       /\ FromBytesBE(SubSeq(f, 5, 8)) = Len(f) - 8
    THEN [ok |-> TRUE, content |-> SubSeq(f, 9, Len(f))]
    ELSE [ok |-> FALSE, content |-> << >>]

\* ------------------------------------------------------------- cdp_protocol.py

MAIN_HEADER_SIZE == 22

CDP_MAGIC == << 67, 68, 80, 57 >>

CHECKSUM_SIZE == 8

BLOCK_SIZE == 768

VER_MAJOR == 9

VER_MINOR == 0

\* abs(...) > 1e-9, in the 10^-3 units of ToFloat
CHECKSUM_TOLERANCE == 0

BYTE_TO_CLASS_ID ==
    LET map == resonance_map
    IN  Stored([n \in 1..256 |-> get_class_info(map, n - 1).class_id], 256)

BYTE_TO_INDEX ==
    LET map == resonance_map
    IN  Stored([n \in 1..256 |-> get_class_info(map, n - 1).index], 256)

ALPHA_CONSTANTS_F64 == Stored([i \in 1..8 |-> ToFloat(ALPHA_CONSTANTS[i])], 8)

RESONANCE_VALUES_F64 ==
    LET table == ResonanceTable
    IN  Stored([n \in 1..256 |-> ToFloat(table[n])], 256)

\* returns << class stream, index stream >>
_resonance_transform(data) ==
    << Stored([i \in 1..Len(data) |-> BYTE_TO_CLASS_ID[data[i] + 1]], Len(data)),
       Stored([i \in 1..Len(data) |-> BYTE_TO_INDEX[data[i] + 1]], Len(data)) >>

\* int(total_hash) % sp_prime; position i of the code is position i + 1 here
_calculate_stream_hash(data) ==
    LET terms == Stored([j \in 1..Len(data) |->
                            MilliMul(RESONANCE_VALUES_F64[data[j] + 1],
                                     ALPHA_CONSTANTS_F64[((j - 1) % 8) + 1])],
                        Len(data))
        total_hash == RangeSum(terms, 1, Len(data))
    IN  (total_hash \div 1000) % SP_PRIME_P

\* a block count that drops the final partial block
NumBlocksFloor(len) == len \div BLOCK_SIZE

\* num_blocks of encode
NumBlocks(len) == (len + BLOCK_SIZE - 1) \div BLOCK_SIZE

\* end = min(start + block_size, len(data))
BlockEnd(start, len) == IF start + BLOCK_SIZE < len THEN start + BLOCK_SIZE ELSE len

\* a checksum that adds the index of every byte to its resonance
BlockChecksumIndexed(data, i) ==
    LET start == i * BLOCK_SIZE
        end == BlockEnd(start, Len(data))
        block_data == Slice(data, start, end)
        terms == Stored([j \in 1..Len(block_data) |->
                            RESONANCE_VALUES_F64[block_data[j] + 1]
                                + BYTE_TO_INDEX[block_data[j] + 1]],
                        Len(block_data))
    IN  RangeSum(terms, 1, Len(block_data))

\* float(sum(calculate_resonance(b) for b in data[start:end])), block i from 0;
\* the sum is carried in the float projection of each cached resonance value
BlockChecksum(data, i) ==
    LET start == i * BLOCK_SIZE
        end == BlockEnd(start, Len(data))
        block_data == Slice(data, start, end)
        terms == Stored([j \in 1..Len(block_data) |->
                            RESONANCE_VALUES_F64[block_data[j] + 1]],
                        Len(block_data))
    IN  RangeSum(terms, 1, Len(block_data))

\* struct.pack("! d", x) / struct.unpack("! d", s)
PackChecksum(x) == ToBytesBE(x, CHECKSUM_SIZE)

UnpackChecksum(s) == FromBytesBE(s)

\* b''.join(checksum_entries)
ManifestOf(data) ==
    LET checksum_entries == [i \in 1..NumBlocks(Len(data)) |->
                                PackChecksum(BlockChecksum(data, i - 1))]
    IN  [j \in 1..(Len(checksum_entries) * CHECKSUM_SIZE) |->
            checksum_entries[((j - 1) \div CHECKSUM_SIZE) + 1][((j - 1) % CHECKSUM_SIZE) + 1]]

\* struct.pack(MAIN_HEADER_FORMAT, ...)
PackHeader(magic, major, minor, stream_hash, s_cls, s_idx) ==
    magic \o << major, minor >> \o ToBytesBE(stream_hash, 8)
          \o ToBytesBE(s_cls, 4) \o ToBytesBE(s_idx, 4)

\* main_header + manifest_size_bytes + compressed_manifest + comp_class + comp_index
Assemble(stream_hash, compressed_manifest, comp_class_stream, comp_index_stream) ==
    PackHeader(CDP_MAGIC, VER_MAJOR, VER_MINOR, stream_hash,
               Len(comp_class_stream), Len(comp_index_stream))
        \o ToBytesLE(Len(compressed_manifest), 4)
        \o compressed_manifest \o comp_class_stream \o comp_index_stream

\* CDPEncoder.encode
encode(data) ==
    LET streams == _resonance_transform(data)
    IN  Assemble(_calculate_stream_hash(data),
                 ZstdCompress(ManifestOf(data)),
                 ZstdCompress(streams[1]),
                 ZstdCompress(streams[2]))

\* an exception leaving decode: nothing is returned
Raise(exc, msg, block, verified) ==
    [status |-> "raise", exc |-> exc, msg |-> msg, block |-> block,
     blocks_verified |-> verified, hash_verified |-> FALSE, data |-> << >>]

\* return original_data, after both "verified" lines were printed
Return(data, verified) ==
    [status |-> "ok", exc |-> "none", msg |-> "none", block |-> -1,
     blocks_verified |-> verified, hash_verified |-> TRUE, data |-> data]

\* num_blocks of decode
ManifestBlocks(binary_manifest) == Len(binary_manifest) \div CHECKSUM_SIZE

\* the comparison of block i of decode: TRUE when the block fails
BlockFails(original_data, binary_manifest, i) ==
    LET stored_checksum == UnpackChecksum(Slice(binary_manifest, i * CHECKSUM_SIZE,
                                                (i + 1) * CHECKSUM_SIZE))
        calculated_checksum == BlockChecksum(original_data, i)
        diff == calculated_checksum - stored_checksum
        abs == IF diff < 0 THEN 0 - diff ELSE diff
    IN  abs > CHECKSUM_TOLERANCE

\* checks in the other order: the stream hash first, then the blocks
VerifyAndReturnHashFirst(original_data, binary_manifest, stream_hash) ==
    LET num_blocks == ManifestBlocks(binary_manifest)
        failing == {i \in 0..(num_blocks - 1) : BlockFails(original_data, binary_manifest, i)}
    IN  IF stream_hash # _calculate_stream_hash(original_data)
        THEN Raise("ValueError", "hash", -1, 0)
        ELSE IF failing # {}
        THEN Raise("ValueError", "block", Min(failing), Min(failing))
        ELSE Return(original_data, num_blocks)

\* the checks of decode on the reconstructed bytes (lines 164-183)
VerifyAndReturn(original_data, binary_manifest, stream_hash) ==
    LET num_blocks == ManifestBlocks(binary_manifest)
        failing == {i \in 0..(num_blocks - 1) : BlockFails(original_data, binary_manifest, i)}
    IN  IF failing # {}
        THEN Raise("ValueError", "block", Min(failing), Min(failing))
        ELSE IF stream_hash # _calculate_stream_hash(original_data)
        THEN Raise("ValueError", "hash", -1, num_blocks)
        ELSE Return(original_data, num_blocks)

\* the reconstruction loop of decode (lines 159-162)
Reconstruct(class_stream, index_stream) ==
    Stored([i \in 1..Len(class_stream) |->
                IF i > Len(index_stream) THEN IndexError
                ELSE get_byte_from_class(resonance_map, class_stream[i], index_stream[i])],
           Len(class_stream))

\* CDPDecoder.decode
decode(encoded_data) ==
    IF Len(encoded_data) < MAIN_HEADER_SIZE
    THEN Raise("struct.error", "header", -1, 0)
    ELSE
    LET magic == SubSeq(encoded_data, 1, 4)
        major == encoded_data[5]
        minor == encoded_data[6]
        stream_hash == FromBytesBE(SubSeq(encoded_data, 7, 14))
        s_cls == FromBytesBE(SubSeq(encoded_data, 15, 18))
        s_idx == FromBytesBE(SubSeq(encoded_data, 19, 22))
    IN  IF magic # CDP_MAGIC \/ major # VER_MAJOR
        THEN Raise("ValueError", "format", -1, 0)
        ELSE
        \* a slice bound past the end acts as the end; capping keeps sums in range
        LET Capped(n) == IF n > Len(encoded_data) THEN Len(encoded_data) ELSE n
            pos0 == MAIN_HEADER_SIZE
            manifest_size == FromBytesLE(Slice(encoded_data, pos0, pos0 + 4))
            pos1 == pos0 + 4
            pos2 == Capped(pos1 + Capped(manifest_size))
            pos3 == Capped(pos2 + Capped(s_cls))
            pos4 == Capped(pos3 + Capped(s_idx))
            compressed_manifest == Slice(encoded_data, pos1, pos2)
            comp_class == Slice(encoded_data, pos2, pos3)
            comp_index == Slice(encoded_data, pos3, pos4)
            class_stream == ZstdDecompress(comp_class)
            index_stream == ZstdDecompress(comp_index)
        IN  IF ~class_stream.ok \/ ~index_stream.ok
            THEN Raise("ZstdError", "stream", -1, 0)
            ELSE
            LET original_data == Reconstruct(class_stream.content, index_stream.content)
            IN  IF \E i \in 1..Len(original_data) : original_data[i] = IndexError
                THEN Raise("IndexError", "lookup", -1, 0)
                ELSE
                LET binary_manifest == ZstdDecompress(compressed_manifest)
                IN  IF ~binary_manifest.ok
                    THEN Raise("ZstdError", "manifest", -1, 0)
                    ELSE VerifyAndReturn(original_data, binary_manifest.content, stream_hash)

\* ------------------------------------------------------------ schema_handler.py
\* A parsed JSON value is [k |-> kind, s |-> its text, n |-> its number]; a
\* field descriptor is [k |-> "dict", name, type, grade] with Absent for a key
\* it lacks; the value of 'fields' is [k |-> kind, items |-> its elements].

Absent == [k |-> "absent", s |-> "", n |-> 0]

JStr(s) == [k |-> "str", s |-> s, n |-> 0]

JInt(n) == [k |-> "int", s |-> "", n |-> n]

\* true and false
JBool(b) == [k |-> "bool", s |-> "", n |-> IF b THEN 1 ELSE 0]

\* a JSON number written with a fraction part, of integral value n
JFloat(n) == [k |-> "float", s |-> "", n |-> n]

\* a JSON list holding the one string s
JListOf(s) == [k |-> "list", s |-> s, n |-> 1]

FieldList(l) == [k |-> "list", items |-> l]

NoFieldList(kind) == [k |-> kind, items |-> << >>]

Field(name, type, grade) == [k |-> "dict", name |-> name, type |-> type, grade |-> grade]

\* a list element that is not an object
NotAnObject == [k |-> "str", name |-> Absent, type |-> Absent, grade |-> Absent]

None == [k |-> "none", name |-> Absent, type |-> Absent, grade |-> Absent]

\* isinstance(x, int): bool is a subclass of int
IsInstanceInt(x) == x.k \in {"int", "bool"}

\* the integer a grade compares and hashes as: True is 1, False is 0
IntValue(x) == x.n

supported_types == {"uint64", "string_utf8", "float32", "bool", "uint8", "float32"}

SchemaRaise(exc, why) == [raised |-> TRUE, exc |-> exc, why |-> why]

\* one pass of the loop of _validate_schema and the passes after it
RECURSIVE ValidateFrom(_, _, _, _)
ValidateFrom(fields, i, seen_names, seen_grades) ==
    IF i > Len(fields) THEN [raised |-> FALSE, exc |-> "none", why |-> "none"]
    ELSE
    LET field == fields[i]
    IN  IF field.k # "dict" THEN SchemaRaise("ValueError", "object")
        ELSE IF Absent \in {field.name, field.type, field.grade}
        THEN SchemaRaise("ValueError", "keys")
        ELSE IF field.name.k # "str" \/ field.name.s = ""
        THEN SchemaRaise("ValueError", "name")
        ELSE IF field.name.s \in seen_names THEN SchemaRaise("ValueError", "duplicate name")
        ELSE IF ~IsInstanceInt(field.grade) THEN SchemaRaise("ValueError", "grade")
        ELSE IF ~(0 <= IntValue(field.grade) /\ IntValue(field.grade) <= 255)
        THEN SchemaRaise("ValueError", "grade")
        ELSE IF IntValue(field.grade) \in seen_grades
        THEN SchemaRaise("ValueError", "duplicate grade")
        ELSE IF field.type.k \in {"list", "dict"} THEN SchemaRaise("TypeError", "unhashable")
        ELSE IF field.type.k # "str" THEN SchemaRaise("ValueError", "type")
        ELSE IF field.type.s \notin supported_types THEN SchemaRaise("ValueError", "type")
        ELSE ValidateFrom(fields, i + 1, seen_names \cup {field.name.s},
                          seen_grades \cup {IntValue(field.grade)})

_validate_schema(raw_schema) ==
    IF raw_schema.fields.k # "list" THEN SchemaRaise("ValueError", "fields")
    ELSE IF Len(raw_schema.fields.items) = 0 THEN SchemaRaise("ValueError", "empty")
    ELSE ValidateFrom(raw_schema.fields.items, 1, {}, {})

\* the dict {keys[i]: fields[i]}: a later field replaces an earlier one
DictBy(fields, keys) ==
    [key \in {keys[i] : i \in 1..Len(fields)} |->
        LET last == CHOOSE i \in 1..Len(fields) :
                        /\ keys[i] = key
                        /\ \A j \in (i + 1)..Len(fields) : keys[j] # key
        IN  fields[last]]

\* Schema(path) for a file that parses to raw_schema
Schema(raw_schema) ==
    LET checked == _validate_schema(raw_schema)
        fields == raw_schema.fields.items
        names == [i \in 1..Len(fields) |-> fields[i].name.s]
        grades == [i \in 1..Len(fields) |-> IntValue(fields[i].grade)]
    IN  IF checked.raised
        THEN [status |-> "raise", exc |-> checked.exc, why |-> checked.why,
              fields |-> << >>, name_to_field |-> << >>, grade_to_field |-> << >>]
        ELSE [status |-> "ok", exc |-> "none", why |-> "none",
              fields |-> fields,
              name_to_field |-> DictBy(fields, names),
              grade_to_field |-> DictBy(fields, grades)]

get_field_by_name(schema, name) ==
    IF name \in DOMAIN schema.name_to_field THEN schema.name_to_field[name] ELSE None

get_field_by_grade(schema, grade) ==
    IF grade \in DOMAIN schema.grade_to_field THEN schema.grade_to_field[grade] ELSE None

\* ------------------------------------------------------- Python values, struct
\* A Python value is [t |-> type, v |-> tuple of integers]: an int n is << n >>,
\* a bool << 0 >> or << 1 >>, a str its code points, and a float the fields
\* << sign, exponent, fraction high 26 bits, fraction low 26 bits >> of its
\* IEEE 754 double.

VInt(n) == [t |-> "int", v |-> << n >>]

VBool(b) == [t |-> "bool", v |-> << IF b THEN 1 ELSE 0 >>]

VStr(code_points) == [t |-> "str", v |-> code_points]

VFloat(sign, exponent, hi, lo) == [t |-> "float", v |-> << sign, exponent, hi, lo >>]

NoValue == [t |-> "none", v |-> << >>]

Packed(bytes) == [exc |-> "none", bytes |-> bytes]

PackError(exc) == [exc |-> exc, bytes |-> << >>]

Unpacked(value) == [exc |-> "none", value |-> value]

UnpackError(exc) == [exc |-> exc, value |-> NoValue]

\* position of the highest set bit of n > 0
HighBit(n) == CHOOSE p \in 0..30 : 2 ^ p <= n /\ (p = 30 \/ n < 2 ^ (p + 1))

\* float(n) for an int or bool n
DoubleOfInt(n) ==
    LET a == IF n < 0 THEN 0 - n ELSE n
        p == HighBit(a)
        rest == a - 2 ^ p
    IN  IF a = 0 THEN << 0, 0, 0, 0 >>
        ELSE << IF n < 0 THEN 1 ELSE 0, 1023 + p,
                IF p <= 26 THEN rest * 2 ^ (26 - p) ELSE rest \div 2 ^ (p - 26),
                IF p <= 26 THEN 0 ELSE (rest % 2 ^ (p - 26)) * 2 ^ (52 - p) >>

\* the four bytes of a float32 with the given sign, exponent and 23-bit fraction
Float32Bytes(sign, e, mant) ==
    << sign * 128 + (e \div 2), (e % 2) * 128 + (mant \div 65536),
       (mant \div 256) % 256, mant % 256 >>

\* q rounded to nearest, ties to even, where q = whole + (rem / 2^bits) and
\* sticky tells of nonzero bits below rem
RoundEven(whole, rem, bits, sticky) ==
    LET half == 2 ^ (bits - 1)
    IN  IF rem > half \/ (rem = half /\ (sticky \/ (whole % 2) = 1))
        THEN whole + 1 ELSE whole

\* struct.pack('!f', d) of a double d
PackFloat32(d) ==
    LET sign == d[1]
        e == d[2] - 1023 + 127
        mant == RoundEven(d[3] \div 8, (d[3] % 8) * (2 ^ 26) + d[4], 29, FALSE)
    IN  IF d[2] = 2047
        THEN Packed(Float32Bytes(sign, 255,
                                 IF d[3] = 0 /\ d[4] = 0 THEN 0
                                 ELSE IF d[3] \div 8 = 0 THEN 1 ELSE d[3] \div 8))
        ELSE IF d[2] = 0 \/ e < 0 - 24 THEN Packed(Float32Bytes(sign, 0, 0))
        ELSE IF e <= 0
        THEN LET shift == 1 - e
                 full == 2 ^ 23 + (d[3] \div 8)
                 sub == RoundEven(full \div 2 ^ shift, full % 2 ^ shift, shift,
                                  d[3] % 8 # 0 \/ d[4] # 0)
             IN  Packed(Float32Bytes(sign, sub \div 2 ^ 23, sub % 2 ^ 23))
        ELSE IF mant = 2 ^ 23
        THEN (IF e + 1 >= 255 THEN PackError("OverflowError")
              ELSE Packed(Float32Bytes(sign, e + 1, 0)))
        ELSE IF e >= 255 THEN PackError("OverflowError")
        ELSE Packed(Float32Bytes(sign, e, mant))

\* struct.unpack('!f', payload)[0], as a double
UnpackFloat32(payload) ==
    LET sign == payload[1] \div 128
        e == (payload[1] % 128) * 2 + (payload[2] \div 128)
        mant == (payload[2] % 128) * 65536 + payload[3] * 256 + payload[4]
    IN  IF Len(payload) # 4 THEN UnpackError("struct.error")
        ELSE IF e = 0 /\ mant = 0 THEN Unpacked(VFloat(sign, 0, 0, 0))
        ELSE IF e = 0
        THEN LET p == HighBit(mant)
             IN  Unpacked(VFloat(sign, 1023 - 149 + p, (mant - 2 ^ p) * 2 ^ (26 - p), 0))
        ELSE IF e = 255 THEN Unpacked(VFloat(sign, 2047, mant * 8, 0))
        ELSE Unpacked(VFloat(sign, e - 127 + 1023, mant * 8, 0))

\* the UTF-8 bytes of one code point that is not a surrogate
Utf8Of(c) ==
    IF c < 128 THEN << c >>
    ELSE IF c < 2048 THEN << 192 + (c \div 64), 128 + (c % 64) >>
    ELSE IF c < 65536
    THEN << 224 + (c \div 4096), 128 + ((c \div 64) % 64), 128 + (c % 64) >>
    ELSE << 240 + (c \div 262144), 128 + ((c \div 4096) % 64), 128 + ((c \div 64) % 64),
            128 + (c % 64) >>

IsSurrogate(c) == c \in 55296..57343

RECURSIVE Utf8Join(_)
Utf8Join(code_points) ==
    IF Len(code_points) = 0 THEN << >>
    ELSE Utf8Of(Head(code_points)) \o Utf8Join(Tail(code_points))

\* str.encode('utf-8')
Utf8Encode(code_points) ==
    IF \E i \in 1..Len(code_points) : IsSurrogate(code_points[i])
    THEN PackError("UnicodeEncodeError")
    ELSE Packed(Utf8Join(code_points))

\* length of the sequence a lead byte opens, 0 for a byte that opens none
Utf8Width(lead) ==
    IF lead < 128 THEN 1
    ELSE IF lead \in 194..223 THEN 2
    ELSE IF lead \in 224..239 THEN 3
    ELSE IF lead \in 240..244 THEN 4
    ELSE 0

\* the code point of the sequence of width w at the head of bytes, -1 if malformed
Utf8Point(bytes, w) ==
    LET Tail6(i) == bytes[i] % 64
        c == IF w = 1 THEN bytes[1]
             ELSE IF w = 2 THEN (bytes[1] % 32) * 64 + Tail6(2)
             ELSE IF w = 3 THEN (bytes[1] % 16) * 4096 + Tail6(2) * 64 + Tail6(3)
             ELSE (bytes[1] % 8) * 262144 + Tail6(2) * 4096 + Tail6(3) * 64 + Tail6(4)
    IN  IF w = 0 \/ Len(bytes) < w THEN 0 - 1
        ELSE IF \E i \in 2..w : bytes[i] \notin 128..191 THEN 0 - 1
        ELSE IF w = 3 /\ (c < 2048 \/ IsSurrogate(c)) THEN 0 - 1
        ELSE IF w = 4 /\ (c < 65536 \/ c > 1114111) THEN 0 - 1
        ELSE c

\* bytes.decode('utf-8'), strict
RECURSIVE Utf8Decode(_, _)
Utf8Decode(bytes, code_points) ==
    IF Len(bytes) = 0 THEN Unpacked(VStr(code_points))
    ELSE LET w == Utf8Width(bytes[1])
             c == Utf8Point(bytes, w)
         IN  IF c < 0 THEN UnpackError("UnicodeDecodeError")
             ELSE Utf8Decode(SubSeq(bytes, w + 1, Len(bytes)), Append(code_points, c))

\* ------------------------------------------------------- structured_encoder.py

\* bool(value)
Truthy(value) ==
    IF value.t = "float" THEN value.v[2] # 0 \/ value.v[3] # 0 \/ value.v[4] # 0
    ELSE IF value.t = "str" THEN Len(value.v) > 0
    ELSE IF value.t = "none" THEN FALSE
    ELSE value.v[1] # 0

_serialize_field(field_definition, value) ==
    LET field_type == field_definition.type.s
        is_int == value.t \in {"int", "bool"}
    IN  IF field_type = "uint64"
        THEN (IF is_int /\ value.v[1] >= 0 THEN Packed(ToBytesBE(value.v[1], 8))
              ELSE PackError("struct.error"))
        ELSE IF field_type = "float32"
        THEN (IF value.t = "float" THEN PackFloat32(value.v)
              ELSE IF is_int THEN PackFloat32(DoubleOfInt(value.v[1]))
              ELSE PackError("struct.error"))
        ELSE IF field_type = "bool"
        THEN Packed(<< IF Truthy(value) THEN 1 ELSE 0 >>)
        ELSE IF field_type = "string_utf8"
        THEN (IF value.t = "str" THEN Utf8Encode(value.v) ELSE PackError("AttributeError"))
        ELSE IF field_type = "uint8"
        THEN (IF is_int /\ value.v[1] \in 0..255 THEN Packed(<< value.v[1] >>)
              ELSE PackError("struct.error"))
        ELSE PackError("TypeError")

EncodeRaise(exc) == [exc |-> exc, stream |-> << >>, payload |-> << >>]

\* the loop of StructuredEncoder.encode from field i on, parts joined so far
RECURSIVE InterleaveFrom(_, _, _, _)
InterleaveFrom(data_object, fields, i, joined) ==
    IF i > Len(fields) THEN [exc |-> "none", stream |-> joined, payload |-> << >>]
    ELSE
    LET field_def == fields[i]
        field_name == field_def.name.s
    IN  IF field_name \notin DOMAIN data_object THEN EncodeRaise("ValueError")
        ELSE
        LET payload_bytes == _serialize_field(field_def, data_object[field_name])
            header == << IntValue(field_def.grade) >> \o ToBytesBE(Len(payload_bytes.bytes), 4)
        IN  IF payload_bytes.exc # "none" THEN EncodeRaise(payload_bytes.exc)
            ELSE InterleaveFrom(data_object, fields, i + 1,
                                joined \o header \o payload_bytes.bytes)

\* an encoder that walks the schema's fields from the last to the first
StructuredEncodeReversed(data_object, schema) ==
    LET interleaved == InterleaveFrom(data_object, Reverse(schema.fields), 1, << >>)
    IN  IF interleaved.exc # "none" THEN interleaved
        ELSE [interleaved EXCEPT !.payload = encode(interleaved.stream)]

\* StructuredEncoder.encode(data_object, schema)
StructuredEncode(data_object, schema) ==
    LET interleaved == InterleaveFrom(data_object, schema.fields, 1, << >>)
    IN  IF interleaved.exc # "none" THEN interleaved
        ELSE [interleaved EXCEPT !.payload = encode(interleaved.stream)]

\* ------------------------------------------------------- structured_decoder.py

\* a constructor that keeps going when decode raises, with an empty stream
StructuredDecoderUnverified(cdp_payload) ==
    LET decoded == decode(cdp_payload)
    IN  [exc |-> "none", uncompressed_stream |-> decoded.data,
         stream_length |-> Len(decoded.data)]

\* StructuredDecoder(cdp_payload): ValueError is raised again as ValueError,
\* any other exception of decode passes through
StructuredDecoder(cdp_payload) ==
    LET decoded == decode(cdp_payload)
    IN  IF decoded.status = "raise"
        THEN [exc |-> decoded.exc, uncompressed_stream |-> << >>, stream_length |-> 0]
        ELSE [exc |-> "none", uncompressed_stream |-> decoded.data,
              stream_length |-> Len(decoded.data)]

_deserialize_field(field_definition, payload) ==
    LET field_type == field_definition.type.s
    IN  IF field_type = "uint64"
        THEN (IF Len(payload) = 8 THEN Unpacked(VInt(FromBytesBE(payload)))
              ELSE UnpackError("struct.error"))
        ELSE IF field_type = "float32" THEN UnpackFloat32(payload)
        ELSE IF field_type = "bool"
        THEN (IF Len(payload) = 1 THEN Unpacked(VBool(payload[1] # 0))
              ELSE UnpackError("struct.error"))
        ELSE IF field_type = "string_utf8" THEN Utf8Decode(payload, << >>)
        ELSE UnpackError("TypeError")

HEADER_SIZE == 5

ProjectRaise(exc, why, position, iterations) ==
    [exc |-> exc, why |-> why, extracted_data |-> << >>, position |-> position,
     iterations |-> iterations]

\* a loop that never compares the end of a payload with the stream length
ExceedsNever(payload_end, stream_length) == FALSE

\* if payload_end > self.stream_length
Exceeds(payload_end, stream_length) == payload_end > stream_length

\* the while loop of project from position on; extracted_data maps names to values
RECURSIVE ProjectFrom(_, _, _, _, _, _)
ProjectFrom(decoder, schema, grades_set, position, extracted_data, iterations) ==
    IF ~(position < decoder.stream_length)
    THEN [exc |-> "none", why |-> "none", extracted_data |-> extracted_data,
          position |-> position, iterations |-> iterations]
    ELSE IF position + HEADER_SIZE > decoder.stream_length
    THEN ProjectRaise("ValueError", "incomplete header", position, iterations + 1)
    ELSE
    LET header == Slice(decoder.uncompressed_stream, position, position + HEADER_SIZE)
        grade == header[1]
        payload_len == FromBytesBE(SubSeq(header, 2, 5))
        payload_end == IF payload_len > IntMax - (position + HEADER_SIZE)
                       THEN IntMax ELSE position + HEADER_SIZE + payload_len
        field_def == get_field_by_grade(schema, grade)
        payload == Slice(decoder.uncompressed_stream, position + HEADER_SIZE, payload_end)
        value == _deserialize_field(field_def, payload)
    IN  IF Exceeds(payload_end, decoder.stream_length)
        THEN ProjectRaise("ValueError", "payload length", position + HEADER_SIZE,
                          iterations + 1)
        ELSE IF grade \in grades_set /\ field_def # None
        THEN (IF value.exc # "none"
              THEN ProjectRaise(value.exc, "deserialize", position + HEADER_SIZE,
                                iterations + 1)
              ELSE ProjectFrom(decoder, schema, grades_set, payload_end,
                               (field_def.name.s :> value.value) @@ extracted_data,
                               iterations + 1))
        ELSE ProjectFrom(decoder, schema, grades_set, payload_end, extracted_data,
                         iterations + 1)

\* StructuredDecoder.project(schema, grades_to_extract)
project(decoder, schema, grades_to_extract) ==
    ProjectFrom(decoder, schema, grades_to_extract, 0, << >>, 0)

\* =================================================================== CDP codec
\* A caller encodes a buffer, the container may be altered in transit or
\* crafted, and a caller decodes it.

\* lengths 0..MaxShort and one below, at and one above each k * 768, k <= MaxBlocks
MaxShort == 2

MaxBlocks == 2

SampleBytes == {0, 1, 2, 255}

DataLengths ==
    (0..MaxShort) \cup {k * BLOCK_SIZE + d : k \in 1..MaxBlocks, d \in {0 - 1, 0, 1}}

\* the buffer of length n that alternates the bytes a and b
Fill(n, a, b) == Stored([i \in 1..n |-> IF i % 2 = 1 THEN a ELSE b], n)

\* buffers of MaxBlocks full blocks whose first block differs from the others
BlockBuffers ==
    {Fill(BLOCK_SIZE, a, a) \o Fill((MaxBlocks - 1) * BLOCK_SIZE, b, b) :
        a \in {0, 255}, b \in {2, 255}}

Buffers ==
    {Fill(n, a, b) : n \in DataLengths, a \in SampleBytes, b \in SampleBytes}
        \cup BlockBuffers

NoResult ==
    [status |-> "none", exc |-> "none", msg |-> "none", block |-> 0 - 1,
     blocks_verified |-> 0, hash_verified |-> FALSE, data |-> << >>]

CdpInit ==
    /\ cdp_pc = "idle"
    /\ cdp_data = << >>
    /\ cdp_container = << >>
    /\ cdp_altered = "none"
    /\ cdp_result = NoResult

\* the sections of a container written by encode, at their declared lengths
ManifestFrame(c) ==
    Slice(c, MAIN_HEADER_SIZE + 4,
          MAIN_HEADER_SIZE + 4 + FromBytesLE(Slice(c, MAIN_HEADER_SIZE, MAIN_HEADER_SIZE + 4)))

ClassFrameStart(c) == MAIN_HEADER_SIZE + 4 + Len(ManifestFrame(c))

ClassFrame(c) ==
    Slice(c, ClassFrameStart(c), ClassFrameStart(c) + FromBytesBE(SubSeq(c, 15, 18)))

IndexFrameStart(c) == ClassFrameStart(c) + Len(ClassFrame(c))

IndexFrame(c) ==
    Slice(c, IndexFrameStart(c), IndexFrameStart(c) + FromBytesBE(SubSeq(c, 19, 22)))

\* positions and values tried when altering a stream of n entries
AlterPositions(n) == {1, n} \cap (1..n)

AlterValues == {0, 1, 2, 3, 96}

\* CDPEncoder.encode(b)
Encode(b) ==
    /\ cdp_pc = "idle"
    /\ cdp_data' = b
    /\ cdp_container' = encode(b)
    /\ cdp_pc' = "encoded"
    /\ UNCHANGED << cdp_altered, cdp_result >>
    /\ UNCHANGED outside_cdp

\* entry p of the class stream inside the container becomes v
AlterClassStream(p, v) ==
    /\ cdp_pc = "encoded"
    /\ cdp_altered = "none"
    /\ p \in AlterPositions(Len(cdp_data))
    /\ LET at == ClassFrameStart(cdp_container) + 8 + p
       IN  /\ cdp_container[at] # v
           /\ cdp_container' = [cdp_container EXCEPT ![at] = v]
    /\ cdp_altered' = "class"
    /\ UNCHANGED << cdp_pc, cdp_data, cdp_result >>
    /\ UNCHANGED outside_cdp

\* entry p of the index stream inside the container becomes v
AlterIndexStream(p, v) ==
    /\ cdp_pc = "encoded"
    /\ cdp_altered = "none"
    /\ p \in AlterPositions(Len(cdp_data))
    /\ LET at == IndexFrameStart(cdp_container) + 8 + p
       IN  /\ cdp_container[at] # v
           /\ cdp_container' = [cdp_container EXCEPT ![at] = v]
    /\ cdp_altered' = "index"
    /\ UNCHANGED << cdp_pc, cdp_data, cdp_result >>
    /\ UNCHANGED outside_cdp

\* the number of bytes in each class, classes counted from 1
ClassSizes ==
    LET map == resonance_map
    IN  Stored([c \in 1..Len(map.class_to_byte) |-> Len(map.class_to_byte[c])],
               Len(map.class_to_byte))

IndexShifts == {1, 3}

\* every entry of the index stream inside the container moves k places on
\* within its class: the streams of another buffer with the same class stream
ShiftIndexStream(k) ==
    /\ cdp_pc = "encoded"
    /\ cdp_altered = "none"
    /\ Len(cdp_data) >= 1
    /\ Len(cdp_data) <= MaxShort \/ cdp_data \in BlockBuffers
    /\ LET classes == ClassFrameStart(cdp_container) + 8
           indices == IndexFrameStart(cdp_container) + 8
           n == Len(cdp_data)
       IN  cdp_container' =
               Stored([j \in 1..Len(cdp_container) |->
                          IF j > indices /\ j <= indices + n
                          THEN (cdp_container[j] + k)
                                   % ClassSizes[cdp_container[classes + (j - indices)] + 1]
                          ELSE cdp_container[j]],
                      Len(cdp_container))
    /\ cdp_altered' = "index"
    /\ UNCHANGED << cdp_pc, cdp_data, cdp_result >>
    /\ UNCHANGED outside_cdp

\* a crafted container: the same streams and hash with only the first k manifest entries
CraftShortManifest(k) ==
    /\ cdp_pc = "encoded"
    /\ cdp_altered = "none"
    /\ LET manifest == ZstdDecompress(ManifestFrame(cdp_container)).content
       IN  /\ k * CHECKSUM_SIZE < Len(manifest)
           /\ cdp_container' =
                Assemble(FromBytesBE(SubSeq(cdp_container, 7, 14)),
                         ZstdCompress(SubSeq(manifest, 1, k * CHECKSUM_SIZE)),
                         ClassFrame(cdp_container), IndexFrame(cdp_container))
    /\ cdp_altered' = "manifest"
    /\ UNCHANGED << cdp_pc, cdp_data, cdp_result >>
    /\ UNCHANGED outside_cdp

\* Forged headers and forged lengths are tried on the containers of the short
\* buffers: decode handles them before it looks at any block.

\* the header fields a forger can overwrite in place: name and byte position
HeaderBytes == [magic |-> 1, major |-> 5, minor |-> 6]

HeaderValues == {1, 8}

\* one byte of the magic or of the version inside the header becomes v
AlterHeader(field, v) ==
    /\ cdp_pc = "encoded"
    /\ cdp_altered = "none"
    /\ Len(cdp_data) <= MaxShort
    /\ cdp_container[HeaderBytes[field]] # v
    /\ cdp_container' = [cdp_container EXCEPT ![HeaderBytes[field]] = v]
    /\ cdp_altered' = field
    /\ UNCHANGED << cdp_pc, cdp_data, cdp_result >>
    /\ UNCHANGED outside_cdp

\* lengths a container is cut to: inside the header, at its end, after the
\* manifest size, and one byte before the end of the last stream
TruncatedLengths(c) ==
    {0, 10, MAIN_HEADER_SIZE - 1, MAIN_HEADER_SIZE, MAIN_HEADER_SIZE + 4, Len(c) - 1}

\* only the first n bytes of the container arrive
Truncate(n) ==
    /\ cdp_pc = "encoded"
    /\ cdp_altered = "none"
    /\ Len(cdp_data) <= MaxShort
    /\ n \in 0..(Len(cdp_container) - 1)
    /\ cdp_container' = SubSeq(cdp_container, 1, n)
    /\ cdp_altered' = "truncated"
    /\ UNCHANGED << cdp_pc, cdp_data, cdp_result >>
    /\ UNCHANGED outside_cdp

\* the three declared lengths: name, first byte, byte order
DeclaredLengths == {"manifest", "class", "index"}

\* the header (or the manifest size) declares one section d bytes longer than it is
DeclareLonger(section, d) ==
    /\ cdp_pc = "encoded"
    /\ cdp_altered = "none"
    /\ Len(cdp_data) <= MaxShort
    /\ LET c == cdp_container
       IN  cdp_container' =
             CASE section = "manifest" ->
                    SubSeq(c, 1, MAIN_HEADER_SIZE)
                      \o ToBytesLE(Len(ManifestFrame(c)) + d, 4)
                      \o SubSeq(c, MAIN_HEADER_SIZE + 5, Len(c))
               [] section = "class" ->
                    SubSeq(c, 1, 14) \o ToBytesBE(Len(ClassFrame(c)) + d, 4)
                      \o SubSeq(c, 19, Len(c))
               [] section = "index" ->
                    SubSeq(c, 1, 18) \o ToBytesBE(Len(IndexFrame(c)) + d, 4)
                      \o SubSeq(c, 23, Len(c))
    /\ cdp_altered' = "overrun"
    /\ UNCHANGED << cdp_pc, cdp_data, cdp_result >>
    /\ UNCHANGED outside_cdp

\* a crafted container: the index stream loses its last entry (d = -1) or gains
\* an entry 0 (d = 1); frames and declared lengths stay consistent
CraftIndexLength(d) ==
    /\ cdp_pc = "encoded"
    /\ cdp_altered = "none"
    /\ Len(cdp_data) <= MaxShort
    /\ LET index_stream == ZstdDecompress(IndexFrame(cdp_container)).content
       IN  /\ Len(index_stream) + d >= 0
           /\ cdp_container' =
                Assemble(FromBytesBE(SubSeq(cdp_container, 7, 14)),
                         ManifestFrame(cdp_container), ClassFrame(cdp_container),
                         ZstdCompress(IF d < 0
                                      THEN SubSeq(index_stream, 1, Len(index_stream) + d)
                                      ELSE index_stream \o [i \in 1..d |-> 0]))
    /\ cdp_altered' = IF d < 0 THEN "shorter" ELSE "longer"
    /\ UNCHANGED << cdp_pc, cdp_data, cdp_result >>
    /\ UNCHANGED outside_cdp

\* the manifest with the last byte of every entry in S raised by one
AlterEntries(manifest, S) ==
    [j \in 1..Len(manifest) |->
        IF j % CHECKSUM_SIZE = 0 /\ ((j \div CHECKSUM_SIZE) - 1) \in S
        THEN (manifest[j] + 1) % 256
        ELSE manifest[j]]

\* a crafted container: the same streams, with the manifest entries of the
\* blocks in S wrong and the header's stream hash raised by h
CraftChecks(S, h) ==
    /\ cdp_pc = "encoded"
    /\ cdp_altered = "none"
    /\ S # {} \/ h # 0
    /\ LET manifest == ZstdDecompress(ManifestFrame(cdp_container)).content
       IN  /\ S \subseteq 0..(ManifestBlocks(manifest) - 1)
           /\ cdp_container' =
                Assemble(FromBytesBE(SubSeq(cdp_container, 7, 14)) + h,
                         ZstdCompress(AlterEntries(manifest, S)),
                         ClassFrame(cdp_container), IndexFrame(cdp_container))
    /\ cdp_altered' = "checks"
    /\ UNCHANGED << cdp_pc, cdp_data, cdp_result >>
    /\ UNCHANGED outside_cdp

\* the sequence s with its chunks i and j (from 0) of the given size exchanged
SwapChunks(s, i, j, size) ==
    Stored([p \in 1..Len(s) |->
                IF (p - 1) \div size = i THEN s[p + (j - i) * size]
                ELSE IF (p - 1) \div size = j THEN s[p - (j - i) * size]
                ELSE s[p]],
           Len(s))

\* a crafted container: the full blocks i and j trade places in both streams
\* and their entries trade places in the manifest; the stream hash is kept
ReorderBlocks(i, j) ==
    /\ cdp_pc = "encoded"
    /\ cdp_altered = "none"
    /\ i < j
    /\ (j + 1) * BLOCK_SIZE <= Len(cdp_data)
    /\ cdp_data \in BlockBuffers
    /\ LET manifest == ZstdDecompress(ManifestFrame(cdp_container)).content
           class_stream == ZstdDecompress(ClassFrame(cdp_container)).content
           index_stream == ZstdDecompress(IndexFrame(cdp_container)).content
           classes == SwapChunks(class_stream, i, j, BLOCK_SIZE)
           indices == SwapChunks(index_stream, i, j, BLOCK_SIZE)
       IN  /\ classes # class_stream \/ indices # index_stream
           /\ cdp_container' =
                Assemble(FromBytesBE(SubSeq(cdp_container, 7, 14)),
                         ZstdCompress(SwapChunks(manifest, i, j, CHECKSUM_SIZE)),
                         ZstdCompress(classes), ZstdCompress(indices))
    /\ cdp_altered' = "reorder"
    /\ UNCHANGED << cdp_pc, cdp_data, cdp_result >>
    /\ UNCHANGED outside_cdp

\* CDPDecoder.decode(cdp_container)
Decode ==
    /\ cdp_pc = "encoded"
    /\ cdp_result' = decode(cdp_container)
    /\ cdp_pc' = "decoded"
    /\ UNCHANGED << cdp_data, cdp_container, cdp_altered >>
    /\ UNCHANGED outside_cdp

CdpNext ==
    \/ \E b \in Buffers : Encode(b)
    \/ \E p \in 1..(MaxBlocks * BLOCK_SIZE + 1), v \in AlterValues : AlterClassStream(p, v)
    \/ \E p \in 1..(MaxBlocks * BLOCK_SIZE + 1), v \in AlterValues : AlterIndexStream(p, v)
    \/ \E k \in IndexShifts : ShiftIndexStream(k)
    \/ \E k \in 0..MaxBlocks : CraftShortManifest(k)
    \/ \E field \in DOMAIN HeaderBytes, v \in HeaderValues : AlterHeader(field, v)
    \/ \E n \in TruncatedLengths(cdp_container) : Truncate(n)
    \/ \E section \in DeclaredLengths : DeclareLonger(section, 1)
    \/ \E d \in {0 - 1, 1} : CraftIndexLength(d)
    \/ \E S \in SUBSET (0..MaxBlocks), h \in {0, 1} : CraftChecks(S, h)
    \/ \E i, j \in 0..MaxBlocks : ReorderBlocks(i, j)
    \/ Decode

\* ========================================================= classification table
\* generate-map builds the table file from the constant set, the application
\* loads it once and looks bytes up.

\* constants.py with entry i (from 0) replaced by the value a
WithAlpha(alpha, i, a) == [alpha EXCEPT ![i + 1] = a]

\* the shipped constant set and edits of it that break or keep its coincidences
AlphaSets ==
    { ALPHA_CONSTANTS,
      WithAlpha(ALPHA_CONSTANTS, 4, Gen(4)),
      WithAlpha(ALPHA_CONSTANTS, 0, Gen(1)),
      WithAlpha(ALPHA_CONSTANTS, 3, One),
      WithAlpha(WithAlpha(ALPHA_CONSTANTS, 0, Gen(2)), 1, Gen(2)),
      WithAlpha(ALPHA_CONSTANTS, 4, GenInv(3)) }

NoGroups == [raised |-> TRUE, why |-> "none"]

NoMap == [raised |-> TRUE, byte_to_class |-> << >>, class_to_byte |-> << >>]

NoFile == [byte_to_class |-> << >>, class_to_byte |-> << >>]

NoLookup == [byte |-> 0 - 1, class_id |-> 0 - 1, index |-> 0 - 1, back |-> 0 - 1]

TblIdle ==
    /\ tbl_pc = "start"
    /\ tbl_alpha = ALPHA_CONSTANTS
    /\ tbl_groups = NoGroups
    /\ tbl_file = NoFile
    /\ tbl_map = NoMap
    /\ tbl_class = NoInstance
    /\ tbl_lookup = NoLookup

TblInit ==
    /\ tbl_pc = "start"
    /\ tbl_alpha \in AlphaSets
    /\ tbl_groups = NoGroups
    /\ tbl_file = NoFile
    /\ tbl_map = NoMap
    /\ tbl_class = NoInstance
    /\ tbl_lookup = NoLookup

\* generate_map.main(): verify, create, save; an AssertionError halts the script
GenerateMap ==
    /\ tbl_pc = "start"
    /\ LET groups == generate_and_verify_partition(Resonances(tbl_alpha))
       IN  /\ tbl_groups' = groups
           /\ IF groups.raised
              THEN tbl_pc' = "halted" /\ tbl_file' = tbl_file
              ELSE /\ tbl_pc' = "saved"
                   /\ tbl_file' = save_map_to_file(create_canonical_map(groups.groups))
    /\ UNCHANGED << tbl_alpha, tbl_map, tbl_class, tbl_lookup >>
    /\ UNCHANGED outside_tbl

\* calls of ResonanceMap() in one process
MaxCalls == 3

\* what happens to the file outside the process: an entry of byte_to_class or
\* a class of class_to_byte is lost
Spoils == {"byte", "class"}

SpoilFile(spoil) ==
    /\ tbl_pc = "saved"
    /\ tbl_class.calls = 0
    /\ Cardinality(DOMAIN tbl_file.byte_to_class) = 256
    /\ Len(tbl_file.class_to_byte) = 96
    /\ tbl_file' =
          IF spoil = "byte"
          THEN [tbl_file EXCEPT !.byte_to_class =
                    [k \in DOMAIN tbl_file.byte_to_class \ {Str(255)} |->
                        tbl_file.byte_to_class[k]]]
          ELSE [tbl_file EXCEPT !.class_to_byte = SubSeq(tbl_file.class_to_byte, 1, 95)]
    /\ UNCHANGED << tbl_pc, tbl_alpha, tbl_groups, tbl_map, tbl_class, tbl_lookup >>
    /\ UNCHANGED outside_tbl

\* ResonanceMap(): the first construction loads the file, whatever its state
LoadMap ==
    /\ tbl_pc # "looked"
    /\ tbl_class.calls < MaxCalls
    /\ LET new == ResonanceMapNew(tbl_class, tbl_map, tbl_file)
       IN  /\ tbl_class' = new.cls
           /\ tbl_map' = new.map
           /\ tbl_pc' = IF new.cls.last = "returned" /\ ~new.map.raised
                        THEN "loaded" ELSE tbl_pc
    /\ UNCHANGED << tbl_alpha, tbl_groups, tbl_file, tbl_lookup >>
    /\ UNCHANGED outside_tbl

\* get_class_info(v), then get_byte_from_class of the class_id and index it returned
Lookup(v) ==
    /\ tbl_pc \in {"loaded", "looked"}
    /\ ~tbl_map.raised
    /\ LET info == get_class_info(tbl_map, v)
       IN  tbl_lookup' = [byte |-> v, class_id |-> info.class_id, index |-> info.index,
                          back |-> get_byte_from_class(tbl_map, info.class_id, info.index)]
    /\ tbl_pc' = "looked"
    /\ UNCHANGED << tbl_alpha, tbl_groups, tbl_file, tbl_map, tbl_class >>
    /\ UNCHANGED outside_tbl

TblNext ==
    \/ GenerateMap
    \/ \E spoil \in Spoils : SpoilFile(spoil)
    \/ LoadMap
    \/ \E v \in Bytes : Lookup(v)

\* ============================================================== schema registry
\* A schema document is loaded and fields are looked up by name and by grade.

\* field lists of up to MaxSchemaFields descriptors
MaxSchemaFields == 2

TypeNames == {"uint64", "float32", "bool", "uint8", "string_utf8"}

WellFormedFields ==
    {Field(JStr("a"), JStr(t), JInt(1)) : t \in TypeNames}
        \cup {Field(JStr(n), JStr("uint64"), JInt(g)) : n \in {"a", "b"}, g \in {0, 1, 255}}

\* descriptors that differ from a well-formed one in one place
MalformedFields ==
    {NotAnObject}
        \cup {Field(n, JStr("uint64"), JInt(2)) : n \in {Absent, JStr(""), JInt(5)}}
        \cup {Field(JStr("b"), t, JInt(2)) :
                    t \in {Absent, JStr("int32"), JInt(8), JListOf("uint64")}}
        \cup {Field(JStr("b"), JStr("bool"), g) :
                    g \in {Absent, JInt(0 - 1), JInt(256), JStr("1"), JFloat(1),
                            JBool(TRUE), JBool(FALSE)}}

FieldPool == WellFormedFields \cup MalformedFields

RECURSIVE ListsOf(_, _)
ListsOf(S, n) ==
    IF n = 0 THEN {<< >>}
    ELSE LET shorter == ListsOf(S, n - 1)
         IN  shorter \cup {Append(l, x) : l \in {m \in shorter : Len(m) = n - 1}, x \in S}

RawSchemas ==
    {[fields |-> NoFieldList("absent")], [fields |-> NoFieldList("str")]}
        \cup {[fields |-> FieldList(l)] : l \in ListsOf(FieldPool, MaxSchemaFields)}

NoSchema ==
    [status |-> "none", exc |-> "none", why |-> "none",
     fields |-> << >>, name_to_field |-> << >>, grade_to_field |-> << >>]

SchIdle ==
    /\ sch_pc = "start"
    /\ sch_raw = [fields |-> NoFieldList("absent")]
    /\ sch_schema = NoSchema
    /\ sch_found = None

SchInit ==
    /\ sch_pc = "start"
    /\ sch_raw \in RawSchemas
    /\ sch_schema = NoSchema
    /\ sch_found = None

\* Schema.__init__: validate, then build the lookup maps
LoadSchema ==
    /\ sch_pc = "start"
    /\ sch_schema' = Schema(sch_raw)
    /\ sch_pc' = "loaded"
    /\ UNCHANGED << sch_raw, sch_found >>
    /\ UNCHANGED outside_sch

GetFieldByName(name) ==
    /\ sch_pc = "loaded"
    /\ sch_schema.status = "ok"
    /\ sch_found' = get_field_by_name(sch_schema, name)
    /\ UNCHANGED << sch_pc, sch_raw, sch_schema >>
    /\ UNCHANGED outside_sch

GetFieldByGrade(grade) ==
    /\ sch_pc = "loaded"
    /\ sch_schema.status = "ok"
    /\ sch_found' = get_field_by_grade(sch_schema, grade)
    /\ UNCHANGED << sch_pc, sch_raw, sch_schema >>
    /\ UNCHANGED outside_sch

SchNext ==
    \/ LoadSchema
    \/ \E name \in {"a", "b", "c"} : GetFieldByName(name)
    \/ \E grade \in {0, 1, 2, 255} : GetFieldByGrade(grade)

\* ============================================================ structured codec
\* A writer encodes a record under its schema; a reader that holds the same
\* schema, or an older one that lacks one of the fields, constructs a decoder
\* on the container and projects grades out of it.

\* schemas of up to MaxRecordFields fields
MaxRecordFields == 3

RecordFields ==
    << Field(JStr("user_id"), JStr("uint64"), JInt(1)),
       Field(JStr("email"), JStr("string_utf8"), JInt(2)),
       Field(JStr("reputation_score"), JStr("float32"), JInt(3)),
       Field(JStr("active"), JStr("bool"), JInt(4)),
       Field(JStr("level"), JStr("uint8"), JInt(5)) >>

\* two values of each type: 123 and 2^31 - 1, "a@b.com" and a string of 2-, 3-
\* and 4-byte characters, 0.5 and 0.1, True and False, 7 and 255
SampleValue(type, sample) ==
    IF type = "uint64" THEN VInt(IF sample = 1 THEN 123 ELSE IntMax)
    ELSE IF type = "string_utf8"
    THEN VStr(IF sample = 1 THEN << 97, 64, 98, 46, 99, 111, 109 >>
              ELSE << 233, 8364, 128512 >>)
    ELSE IF type = "float32"
    THEN (IF sample = 1 THEN VFloat(0, 1022, 0, 0) ELSE VFloat(0, 1019, 40265318, 26843546))
    ELSE IF type = "bool" THEN VBool(sample = 1)
    ELSE VInt(IF sample = 1 THEN 7 ELSE 255)

\* values that do not fit the type: -1 and 0.5 for uint64, 5 and a lone
\* surrogate for string_utf8, 1e39 and "x" for float32, "no" and None for bool,
\* -1 and 256 for uint8
UnfitValue(type, sample) ==
    IF type = "uint64" THEN (IF sample = 1 THEN VInt(0 - 1) ELSE VFloat(0, 1022, 0, 0))
    ELSE IF type = "string_utf8" THEN (IF sample = 1 THEN VInt(5) ELSE VStr(<< 55357 >>))
    ELSE IF type = "float32"
    THEN (IF sample = 1 THEN VFloat(0, 1152, 31498749, 10242589) ELSE VStr(<< 120 >>))
    ELSE IF type = "bool" THEN (IF sample = 1 THEN VStr(<< 110, 111 >>) ELSE NoValue)
    ELSE VInt(IF sample = 1 THEN 0 - 1 ELSE 256)

\* the field lists that name each field at most once
FieldLists ==
    {l \in ListsOf({RecordFields[i] : i \in 1..Len(RecordFields)}, MaxRecordFields) :
        /\ Len(l) > 0
        /\ \A i, j \in 1..Len(l) : i # j => l[i] # l[j]}

\* the list without its element i
Without(l, i) == SubSeq(l, 1, i - 1) \o SubSeq(l, i + 1, Len(l))

\* the writer's field list, or an older one that lacks one of its fields
ReaderLists(l) == {l} \cup {Without(l, i) : i \in {j \in 1..Len(l) : Len(l) > 1}}

SchemaOf(l) == Schema([fields |-> FieldList(l)])

RecordOf(l, sample) ==
    [name \in {l[i].name.s : i \in 1..Len(l)} |->
        SampleValue(l[CHOOSE i \in 1..Len(l) : l[i].name.s = name].type.s, sample)]

\* the record whose field i holds a value that does not fit its type
RecordUnfit(l, i, sample) ==
    [name \in {l[k].name.s : k \in 1..Len(l)} |->
        IF name = l[i].name.s THEN UnfitValue(l[i].type.s, sample)
        ELSE SampleValue(l[CHOOSE k \in 1..Len(l) : l[k].name.s = name].type.s, 1)]

\* the record that lacks field i
RecordLacking(l, i) ==
    [name \in {l[k].name.s : k \in 1..Len(l)} \ {l[i].name.s} |->
        SampleValue(l[CHOOSE k \in 1..Len(l) : l[k].name.s = name].type.s, 1)]

\* complete records, and records whose first or last field is unfit or lacking
Records(l) ==
    {RecordOf(l, sample) : sample \in {1, 2}}
        \cup {RecordUnfit(l, i, sample) : i \in {1, Len(l)}, sample \in {1, 2}}
        \cup {RecordLacking(l, i) : i \in {1, Len(l)}}

GradesOf(schema) == {IntValue(schema.fields[i].grade) : i \in 1..Len(schema.fields)}

NoEncoded == [exc |-> "none", stream |-> << >>, payload |-> << >>]

NoDecoder == [exc |-> "none", uncompressed_stream |-> << >>, stream_length |-> 0]

NoProjection ==
    [exc |-> "none", why |-> "none", extracted_data |-> << >>, position |-> 0,
     iterations |-> 0]

RecIdle ==
    /\ rec_pc = "start"
    /\ rec_writer = NoSchema
    /\ rec_reader = NoSchema
    /\ rec_object = << >>
    /\ rec_encoded = NoEncoded
    /\ rec_altered = "none"
    /\ rec_decoder = NoDecoder
    /\ rec_grades = {}
    /\ rec_result = NoProjection

RecInit ==
    /\ rec_pc = "start"
    /\ \E l \in FieldLists :
          /\ rec_writer = SchemaOf(l)
          /\ \E older \in ReaderLists(l) :
                /\ rec_reader = SchemaOf(older)
                /\ rec_object \in IF older = l THEN Records(l)
                                  ELSE {RecordOf(l, sample) : sample \in {1, 2}}
    /\ rec_encoded = NoEncoded
    /\ rec_altered = "none"
    /\ rec_decoder = NoDecoder
    /\ rec_grades = {}
    /\ rec_result = NoProjection

\* StructuredEncoder().encode(rec_object, rec_writer)
EncodeRecord ==
    /\ rec_pc = "start"
    /\ rec_encoded' = StructuredEncode(rec_object, rec_writer)
    /\ rec_pc' = IF rec_encoded'.exc = "none" THEN "encoded" ELSE "failed"
    /\ UNCHANGED << rec_writer, rec_reader, rec_object, rec_altered, rec_decoder, rec_grades,
                    rec_result >>
    /\ UNCHANGED outside_rec

\* tails that make a stream malformed: "cut" drops its last byte, "stub" adds
\* three bytes where a header is expected, "long" adds a triple of an unknown
\* grade that declares two payload bytes and holds one
MalformedTails == {"cut", "stub", "long"}

\* a writer other than StructuredEncoder hands a malformed stream to
\* CDPEncoder.encode; the reader holds the writer's schema
CraftStream(tail) ==
    /\ rec_pc = "encoded"
    /\ rec_altered = "none"
    /\ rec_reader = rec_writer
    /\ LET stream == rec_encoded.stream
           crafted == CASE tail = "cut" -> SubSeq(stream, 1, Len(stream) - 1)
                        [] tail = "stub" -> stream \o << 9, 0, 0 >>
                        [] tail = "long" -> stream \o << 9, 0, 0, 0, 2, 7 >>
       IN  rec_encoded' = [exc |-> "none", stream |-> crafted, payload |-> encode(crafted)]
    /\ rec_altered' = "stream"
    /\ UNCHANGED << rec_pc, rec_writer, rec_reader, rec_object, rec_decoder, rec_grades,
                    rec_result >>
    /\ UNCHANGED outside_rec

\* damage to a container in transit: a wrong stream hash, a changed class
\* entry, a changed magic, a cut inside the header
Damages == {"hash", "class", "magic", "short"}

\* the container is damaged between encode and the decoder's construction;
\* the reader holds the writer's schema
DamagePayload(damage) ==
    /\ rec_pc = "encoded"
    /\ rec_altered = "none"
    /\ rec_reader = rec_writer
    /\ LET c == rec_encoded.payload
           at == ClassFrameStart(c) + 9
           damaged == CASE damage = "hash" -> [c EXCEPT ![14] = (c[14] + 1) % 256]
                        [] damage = "class" -> [c EXCEPT ![at] = (c[at] + 1) % 256]
                        [] damage = "magic" -> [c EXCEPT ![1] = 0]
                        [] damage = "short" -> SubSeq(c, 1, 10)
       IN  rec_encoded' = [rec_encoded EXCEPT !.payload = damaged]
    /\ rec_altered' = "payload"
    /\ UNCHANGED << rec_pc, rec_writer, rec_reader, rec_object, rec_decoder, rec_grades,
                    rec_result >>
    /\ UNCHANGED outside_rec

\* StructuredDecoder(the container)
NewDecoder ==
    /\ rec_pc = "encoded"
    /\ rec_decoder' = StructuredDecoder(rec_encoded.payload)
    /\ rec_pc' = IF rec_decoder'.exc = "none" THEN "verified" ELSE "failed"
    /\ UNCHANGED << rec_writer, rec_reader, rec_object, rec_encoded, rec_altered, rec_grades,
                    rec_result >>
    /\ UNCHANGED outside_rec

\* decoder.project(rec_reader, grades)
Project(grades) ==
    /\ rec_pc \in {"verified", "projected"}
    /\ rec_grades' = grades
    /\ rec_result' = project(rec_decoder, rec_reader, grades)
    /\ rec_pc' = "projected"
    /\ UNCHANGED << rec_writer, rec_reader, rec_object, rec_encoded, rec_altered, rec_decoder >>
    /\ UNCHANGED outside_rec

RecNext ==
    \/ EncodeRecord
    \/ \E tail \in MalformedTails : CraftStream(tail)
    \/ \E damage \in Damages : DamagePayload(damage)
    \/ NewDecoder
    \/ \E grades \in SUBSET GradesOf(rec_writer) : Project(grades)

\* ===================================================================== threads
\* Several threads, each with a CDPEncoder and a CDPDecoder of its own, make one
\* call each; the statements of the calls interleave. A call keeps its local
\* objects in a buffer slot; it reads the module's table and arrays.

MaxThreads == 2

Threads == 1..MaxThreads

\* the slot holding the local objects of the call of thread t: the arrays and
\* byte strings are created inside the call, so every call has its own
SlotShared(t) == 1

Slot(t) == t

NoBuf ==
    [class_stream |-> << >>, index_stream |-> << >>, comp_class |-> << >>,
     comp_index |-> << >>, stream_hash |-> 0, compressed_manifest |-> << >>,
     original_data |-> << >>, binary_manifest |-> << >>]

NoCall == [kind |-> "none", input |-> << >>]

ThreadBuffers == {Fill(n, 1, 255) : n \in {0, 1, 3}}

\* containers handed to decode: sound ones, one with a wrong stream hash, one
\* cut inside the header
ThreadContainers ==
    {encode(Fill(n, 1, 255)) : n \in {1, 3}}
        \cup {[encode(<< 1 >>) EXCEPT ![14] = 255], SubSeq(encode(<< 1 >>), 1, 10)}

ThreadCalls ==
    {[kind |-> "encode", input |-> b] : b \in ThreadBuffers}
        \cup {[kind |-> "decode", input |-> c] : c \in ThreadContainers}

\* the cache after RESONANCE_VALUES_F64 was filled at import: every byte
ImportedCache == {i : i \in 0..255}

\* the cache after calculate_resonance ran for every byte of data; its 256
\* places hold every key there is, so nothing is ever evicted
CacheAfter(cache, data) == cache \cup {data[i] : i \in 1..Len(data)}

ThrIdle ==
    /\ thr_pc = [t \in Threads |-> "ready"]
    /\ thr_call = [t \in Threads |-> NoCall]
    /\ thr_buf = [t \in Threads |-> NoBuf]
    /\ thr_out = [t \in Threads |-> NoResult]
    /\ thr_table = resonance_map
    /\ thr_cache = ImportedCache

ThrInit ==
    /\ thr_pc = [t \in Threads |-> "ready"]
    /\ thr_call \in [Threads -> ThreadCalls]
    /\ thr_buf = [t \in Threads |-> NoBuf]
    /\ thr_out = [t \in Threads |-> NoResult]
    /\ thr_table = resonance_map
    /\ thr_cache = ImportedCache

\* the statement of encode at pc, on the local objects buf: the next pc, the
\* local objects after it and what the call returned, if it returned;
\* BYTE_TO_CLASS_ID and BYTE_TO_INDEX hold get_class_info of every byte
EncodeStatement(pc, data, buf, table, cache) ==
    CASE pc = "ready" ->
           [cache |-> cache, pc |-> "transformed", out |-> NoResult,
            buf |-> [buf EXCEPT
                       !.class_stream =
                           [i \in 1..Len(data) |-> get_class_info(table, data[i]).class_id],
                       !.index_stream =
                           [i \in 1..Len(data) |-> get_class_info(table, data[i]).index]]]
      [] pc = "transformed" ->
           [cache |-> cache, pc |-> "compressed", out |-> NoResult,
            buf |-> [buf EXCEPT !.comp_class = ZstdCompress(buf.class_stream),
                                !.comp_index = ZstdCompress(buf.index_stream)]]
      [] pc = "compressed" ->
           [cache |-> cache, pc |-> "hashed", out |-> NoResult,
            buf |-> [buf EXCEPT !.stream_hash = _calculate_stream_hash(data)]]
      [] pc = "hashed" ->
           [cache |-> CacheAfter(cache, data), pc |-> "manifested", out |-> NoResult,
            buf |-> [buf EXCEPT !.compressed_manifest = ZstdCompress(ManifestOf(data))]]
      [] pc = "manifested" ->
           [cache |-> cache, pc |-> "done", buf |-> buf,
            out |-> Return(Assemble(buf.stream_hash, buf.compressed_manifest,
                                    buf.comp_class, buf.comp_index), 0)]

\* the statement of decode at pc
DecodeStatement(pc, encoded_data, buf, table, cache) ==
    CASE pc = "ready" ->
           IF Len(encoded_data) < MAIN_HEADER_SIZE
           THEN [cache |-> cache, pc |-> "done", buf |-> buf, out |-> Raise("struct.error", "header", -1, 0)]
           ELSE IF SubSeq(encoded_data, 1, 4) # CDP_MAGIC \/ encoded_data[5] # VER_MAJOR
           THEN [cache |-> cache, pc |-> "done", buf |-> buf, out |-> Raise("ValueError", "format", -1, 0)]
           ELSE [cache |-> cache, pc |-> "sliced", out |-> NoResult,
                 buf |-> [buf EXCEPT
                            !.stream_hash = FromBytesBE(SubSeq(encoded_data, 7, 14)),
                            !.compressed_manifest = ManifestFrame(encoded_data),
                            !.comp_class = ClassFrame(encoded_data),
                            !.comp_index = IndexFrame(encoded_data)]]
      [] pc = "sliced" ->
           LET class_stream == ZstdDecompress(buf.comp_class)
               index_stream == ZstdDecompress(buf.comp_index)
           IN  IF ~class_stream.ok \/ ~index_stream.ok
               THEN [cache |-> cache, pc |-> "done", buf |-> buf, out |-> Raise("ZstdError", "stream", -1, 0)]
               ELSE [cache |-> cache, pc |-> "decompressed", out |-> NoResult,
                     buf |-> [buf EXCEPT !.class_stream = class_stream.content,
                                         !.index_stream = index_stream.content]]
      [] pc = "decompressed" ->
           LET original_data ==
                 [i \in 1..Len(buf.class_stream) |->
                     IF i > Len(buf.index_stream) THEN IndexError
                     ELSE get_byte_from_class(table, buf.class_stream[i], buf.index_stream[i])]
           IN  IF \E i \in 1..Len(original_data) : original_data[i] = IndexError
               THEN [cache |-> cache, pc |-> "done", buf |-> buf, out |-> Raise("IndexError", "lookup", -1, 0)]
               ELSE [cache |-> cache, pc |-> "reconstructed", out |-> NoResult,
                     buf |-> [buf EXCEPT !.original_data = original_data]]
      [] pc = "reconstructed" ->
           LET binary_manifest == ZstdDecompress(buf.compressed_manifest)
           IN  IF ~binary_manifest.ok
               THEN [cache |-> cache, pc |-> "done", buf |-> buf, out |-> Raise("ZstdError", "manifest", -1, 0)]
               ELSE [cache |-> cache, pc |-> "checking", out |-> NoResult,
                     buf |-> [buf EXCEPT !.binary_manifest = binary_manifest.content]]
      [] pc = "checking" ->
           [cache |-> CacheAfter(cache, buf.original_data), pc |-> "done", buf |-> buf,
            out |-> VerifyAndReturn(buf.original_data, buf.binary_manifest, buf.stream_hash)]

\* thread t runs the next statement of its CDPEncoder.encode call
EncodeStep(t) ==
    /\ thr_call[t].kind = "encode"
    /\ thr_pc[t] # "done"
    /\ LET after == EncodeStatement(thr_pc[t], thr_call[t].input, thr_buf[Slot(t)], thr_table, thr_cache)
       IN  /\ thr_pc' = [thr_pc EXCEPT ![t] = after.pc]
           /\ thr_buf' = [thr_buf EXCEPT ![Slot(t)] = after.buf]
           /\ thr_out' = [thr_out EXCEPT ![t] = after.out]
           /\ thr_cache' = after.cache
    /\ UNCHANGED << thr_call, thr_table >>
    /\ UNCHANGED outside_thr

\* thread t runs the next statement of its CDPDecoder.decode call
DecodeStep(t) ==
    /\ thr_call[t].kind = "decode"
    /\ thr_pc[t] # "done"
    /\ LET after == DecodeStatement(thr_pc[t], thr_call[t].input, thr_buf[Slot(t)], thr_table, thr_cache)
       IN  /\ thr_pc' = [thr_pc EXCEPT ![t] = after.pc]
           /\ thr_buf' = [thr_buf EXCEPT ![Slot(t)] = after.buf]
           /\ thr_out' = [thr_out EXCEPT ![t] = after.out]
           /\ thr_cache' = after.cache
    /\ UNCHANGED << thr_call, thr_table >>
    /\ UNCHANGED outside_thr

ThrNext ==
    \/ \E t \in Threads : EncodeStep(t)
    \/ \E t \in Threads : DecodeStep(t)

\* ============================================================== specifications

Init == CdpInit /\ TblIdle /\ SchIdle /\ RecIdle /\ ThrIdle

Next == CdpNext

Spec == Init /\ [][Next]_vars

InitTable == CdpInit /\ TblInit /\ SchIdle /\ RecIdle /\ ThrIdle

NextTable == TblNext

SpecTable == InitTable /\ [][NextTable]_vars

InitSchema == CdpInit /\ TblIdle /\ SchInit /\ RecIdle /\ ThrIdle

NextSchema == SchNext

SpecSchema == InitSchema /\ [][NextSchema]_vars

InitRecord == CdpInit /\ TblIdle /\ SchIdle /\ RecInit /\ ThrIdle

NextRecord == RecNext

SpecRecord == InitRecord /\ [][NextRecord]_vars

InitThreads == CdpInit /\ TblIdle /\ SchIdle /\ RecIdle /\ ThrInit

NextThreads == ThrNext

SpecThreads == InitThreads /\ [][NextThreads]_vars

\* ================================================================== properties

\* ceil(n / d): the least q with q * d >= n
CeilDiv(n, d) == CHOOSE q \in 0..n : q * d >= n /\ (q = 0 \/ (q - 1) * d < n)

Decoded == cdp_pc = "decoded"

Unaltered == cdp_altered = "none"

\* C1: decoding the container that encode wrote for a buffer returns exactly
\* that buffer and raises nothing, for empty, short and multi-block buffers.
C1_RoundTrip ==
    (Decoded /\ Unaltered) => (cdp_result.status = "ok" /\ cdp_result.data = cdp_data)

C1_Witness ==
    /\ Decoded /\ Unaltered
    /\ Len(cdp_data) = 2 * BLOCK_SIZE + 1
    /\ cdp_result.status = "ok" /\ cdp_result.data = cdp_data

\* C2: after the content of the class stream or of the index stream of a valid
\* container was altered, decode either raises or returns exactly the encoded
\* buffer; it never returns a different buffer.
C2_NoSilentlyWrongResult ==
    (Decoded /\ cdp_altered \in {"class", "index"})
        => (cdp_result.status = "raise" \/ cdp_result.data = cdp_data)

\* C3: whenever decode returns data of length L, the stream hash matched and
\* every one of the ceil(L / 768) blocks of that data was compared with a
\* manifest entry and matched.
C3_ReturnsOnlyVerified ==
    (Decoded /\ cdp_result.status = "ok")
        => /\ cdp_result.hash_verified
           /\ cdp_result.blocks_verified >= CeilDiv(Len(cdp_result.data), BLOCK_SIZE)

\* C4: for a buffer of length L encode writes exactly ceil(L / 768) manifest
\* entries and decoding that container verifies exactly ceil(L / 768) blocks.
C4_BlockCount ==
    /\ (cdp_pc \in {"encoded", "decoded"} /\ Unaltered)
          => Len(ZstdDecompress(ManifestFrame(cdp_container)).content)
                = CHECKSUM_SIZE * CeilDiv(Len(cdp_data), BLOCK_SIZE)
    /\ (Decoded /\ Unaltered)
          => cdp_result.blocks_verified = CeilDiv(Len(cdp_data), BLOCK_SIZE)

C4_Witness ==
    /\ Decoded /\ Unaltered
    /\ Len(cdp_data) = BLOCK_SIZE + 1
    /\ cdp_result.blocks_verified = 2

\* the bytes whose resonance value equals that of byte b, by exact equality
SameResonance(res, b) == {c \in Bytes : res[c + 1] = res[b + 1]}

ClassesOf(res) == {SameResonance(res, b) : b \in Bytes}

ClassesOfSize(classes, n) == Cardinality({c \in classes : Cardinality(c) = n})

\* 96 classes, 32 of size 4 and 64 of size 2, together all 256 bytes
ExpectedPartition(classes) ==
    /\ Cardinality(classes) = 96
    /\ ClassesOfSize(classes, 4) = 32
    /\ ClassesOfSize(classes, 2) = 64
    /\ 4 * ClassesOfSize(classes, 4) + 2 * ClassesOfSize(classes, 2) = 256
    /\ UNION classes = Bytes

\* C5: for the table built by create_canonical_map, saved and loaded, the
\* reverse lookup of the forward lookup of every byte v is v; class ids ascend
\* with the resonance value and indices ascend with the member byte value.
C5_TableBijection ==
    tbl_pc = "looked" =>
        LET v == tbl_lookup.byte
            res == Resonances(tbl_alpha)
        IN  /\ tbl_lookup.back = v
            /\ \A w \in Bytes :
                  LET info == get_class_info(tbl_map, w)
                  IN  /\ (info.class_id < tbl_lookup.class_id)
                            <=> (KeyOf(res[w + 1]) < KeyOf(res[v + 1]))
                      /\ (info.class_id = tbl_lookup.class_id)
                            => ((info.index < tbl_lookup.index) <=> (w < v))

C5_Witness ==
    /\ tbl_pc = "looked"
    /\ tbl_alpha = ALPHA_CONSTANTS
    /\ tbl_lookup.byte = 49
    /\ tbl_lookup.index = 3
    /\ tbl_lookup.back = 49

\* C6: grouping the 256 bytes by equal resonance value under the shipped
\* constants gives 96 classes, 32 of size 4 and 64 of size 2, 256 members in
\* all, and generate_and_verify_partition returns that grouping; under any
\* constant set where a count differs it raises and no table is written.
C6_PartitionVerified ==
    tbl_pc \in {"halted", "saved"} =>
        LET classes == ClassesOf(Resonances(tbl_alpha))
        IN  /\ tbl_alpha = ALPHA_CONSTANTS => ExpectedPartition(classes)
            /\ ExpectedPartition(classes)
                  => /\ ~tbl_groups.raised
                     /\ {tbl_groups.groups[k] : k \in DOMAIN tbl_groups.groups} = classes
            /\ ~ExpectedPartition(classes)
                  => (tbl_groups.raised /\ tbl_pc = "halted" /\ tbl_file = NoFile)

C6_Witness ==
    /\ tbl_pc = "saved"
    /\ tbl_alpha = ALPHA_CONSTANTS
    /\ ~tbl_groups.raised
    /\ Cardinality(DOMAIN tbl_groups.groups) = 96
    /\ CountOfSize(tbl_groups.groups, 4) = 32
    /\ CountOfSize(tbl_groups.groups, 2) = 64

\* the constraints on a field list: non-empty, every field an object with
\* name, type and grade, names non-empty strings, grades integers in 0..255,
\* names and grades pairwise distinct, types in the closed set
ValidFieldList(raw_schema) ==
    /\ raw_schema.fields.k = "list"
    /\ LET fields == raw_schema.fields.items
       IN  /\ Len(fields) > 0
           /\ \A i \in 1..Len(fields) :
                 /\ fields[i].k = "dict"
                 /\ Absent \notin {fields[i].name, fields[i].type, fields[i].grade}
                 /\ fields[i].name.k = "str" /\ fields[i].name.s # ""
                 /\ fields[i].grade.k = "int"
                 /\ fields[i].grade.n \in 0..255
                 /\ fields[i].type.k = "str" /\ fields[i].type.s \in TypeNames
           /\ \A i, j \in 1..Len(fields) :
                 i # j => /\ fields[i].name # fields[j].name
                          /\ fields[i].grade # fields[j].grade

\* C10: a field list for which Schema construction succeeds satisfies every
\* constraint (non-empty, all keys, distinct non-empty string names, distinct
\* integer grades in 0..255, types in the closed set), and a field list that
\* violates one makes construction raise the validation error (ValueError).
C10_SchemaValidated ==
    sch_pc = "loaded" =>
        /\ sch_schema.status = "ok" => ValidFieldList(sch_raw)
        /\ ~ValidFieldList(sch_raw)
              => (sch_schema.status = "raise" /\ sch_schema.exc = "ValueError")

Projected == rec_pc = "projected" /\ rec_altered = "none"

SameSchema == rec_reader = rec_writer

\* the value a field's payload carries: a float32 field carries the float32
\* nearest to the value, a bool field the truth value, every other type the
\* value itself
AsEncoded(field_type, value) ==
    IF field_type = "float32" /\ value.t = "float"
    THEN UnpackFloat32(PackFloat32(value.v).bytes).value
    ELSE IF field_type = "bool" THEN VBool(Truthy(value))
    ELSE value

\* the fields of the reader's schema whose grade is requested
Requested == {i \in 1..Len(rec_reader.fields) : IntValue(rec_reader.fields[i].grade) \in rec_grades}

\* project raised nothing and returned exactly the requested fields of the
\* reader's schema, each with the value that was encoded
ExactProjection ==
    /\ rec_result.exc = "none"
    /\ DOMAIN rec_result.extracted_data = {rec_reader.fields[i].name.s : i \in Requested}
    /\ \A i \in Requested :
          LET field == rec_reader.fields[i]
          IN  rec_result.extracted_data[field.name.s]
                  = AsEncoded(field.type.s, rec_object[field.name.s])

\* C7: a record encoded under a schema and projected with the same schema and
\* a grade list G yields exactly the map from name to encoded value of the
\* fields whose grade is in G, and no other key.
C7_SelectiveProjection == (Projected /\ SameSchema) => ExactProjection

\* C8: a record encoded under a schema with a grade the reader's older schema
\* lacks, projected with the older schema, yields only fields of the older
\* schema with their encoded values and no error, wherever the unknown triple
\* sits and whether or not its grade is requested.
C8_ForwardCompatible == (Projected /\ ~SameSchema) => ExactProjection

\* C9: every field of a type in {uint64, float32, bool, uint8, string_utf8},
\* encoded and then requested in project under the same schema, is returned
\* with its original value and without error.
C9_TypesRoundTrip ==
    (Projected /\ SameSchema) =>
        \A i \in Requested :
            LET field == rec_reader.fields[i]
            IN  /\ rec_result.exc = "none"
                /\ field.name.s \in DOMAIN rec_result.extracted_data
                /\ rec_result.extracted_data[field.name.s] = rec_object[field.name.s]

\* two grades that are equal as Python values: True equals 1 and 1.0 equals 1
SameGrade(a, b) ==
    /\ a.k # "absent" /\ b.k # "absent"
    /\ \/ a.k = "str" /\ b.k = "str" /\ a.s = b.s
       \/ a.k \in {"int", "bool", "float"} /\ b.k \in {"int", "bool", "float"} /\ a.n = b.n

\* the document holds a field list in which two fields share a grade
SharesGrade(raw_schema) ==
    /\ raw_schema.fields.k = "list"
    /\ \E i, j \in 1..Len(raw_schema.fields.items) :
          /\ i # j
          /\ raw_schema.fields.items[i].k = "dict"
          /\ raw_schema.fields.items[j].k = "dict"
          /\ SameGrade(raw_schema.fields.items[i].grade, raw_schema.fields.items[j].grade)

\* C11: loading a schema in which two fields share a grade raises the
\* validation error (ValueError) and builds no lookup map, so no Schema object
\* that construction returned holds two fields with one grade.
C11_DuplicateGradeRejected ==
    sch_pc = "loaded" =>
        /\ SharesGrade(sch_raw)
              => /\ sch_schema.status = "raise"
                 /\ sch_schema.exc = "ValueError"
                 /\ DOMAIN sch_schema.name_to_field = {}
                 /\ DOMAIN sch_schema.grade_to_field = {}
        /\ sch_schema.status = "ok" => ~SharesGrade(sch_raw)

\* the version pair written into the header by encode
WrittenVersion == << VER_MAJOR, VER_MINOR >>

\* C12: decode rejects with the format error, returning nothing, every
\* container whose header carries a magic other than the protocol magic or a
\* version pair (ver_major, ver_minor) other than the one encode writes.
C12_MagicAndVersionChecked ==
    (/\ cdp_pc = "decoded"
     /\ Len(cdp_container) >= MAIN_HEADER_SIZE
     /\ \/ SubSeq(cdp_container, 1, 4) # CDP_MAGIC
        \/ << cdp_container[5], cdp_container[6] >> # WrittenVersion)
    => /\ cdp_result.status = "raise"
       /\ cdp_result.exc = "ValueError"
       /\ cdp_result.msg = "format"
       /\ cdp_result.data = << >>

\* the bytes the header and the manifest size declare, header included
DeclaredSize(c) ==
    MAIN_HEADER_SIZE + 4 + FromBytesLE(Slice(c, MAIN_HEADER_SIZE, MAIN_HEADER_SIZE + 4))
        + FromBytesBE(SubSeq(c, 15, 18)) + FromBytesBE(SubSeq(c, 19, 22))

\* the container is shorter than its header, or than the lengths it declares
Overrunning(c) ==
    \/ Len(c) < MAIN_HEADER_SIZE
    \/ DeclaredSize(c) > Len(c)

\* C13: decode of a container shorter than the fixed header, or whose declared
\* lengths overrun the bytes present, raises the format error kind (the
\* ValueError raised for a bad magic) and returns no data.
C13_TruncationIsFormatError ==
    (cdp_pc = "decoded" /\ Overrunning(cdp_container))
    => /\ cdp_result.status = "raise"
       /\ cdp_result.exc = "ValueError"
       /\ cdp_result.data = << >>

\* both streams of the container decompress, to different lengths
UnequalStreams(c) ==
    /\ ~Overrunning(c)
    /\ ZstdDecompress(ClassFrame(c)).ok
    /\ ZstdDecompress(IndexFrame(c)).ok
    /\ Len(ZstdDecompress(ClassFrame(c)).content) # Len(ZstdDecompress(IndexFrame(c)).content)

\* C14: when the decompressed class stream and index stream differ in length,
\* the index stream being the shorter or the longer one, decode raises the
\* corruption error (the ValueError of the integrity checks) and returns no data.
C14_UnequalStreamsRejected ==
    (cdp_pc = "decoded" /\ UnequalStreams(cdp_container))
    => /\ cdp_result.status = "raise"
       /\ cdp_result.exc = "ValueError"
       /\ cdp_result.data = << >>

\* decode got as far as its checks: header, frames and lookups were accepted
ReachesChecks(c) ==
    /\ Len(c) >= MAIN_HEADER_SIZE
    /\ SubSeq(c, 1, 4) = CDP_MAGIC /\ c[5] = VER_MAJOR
    /\ ZstdDecompress(ManifestFrame(c)).ok
    /\ ZstdDecompress(ClassFrame(c)).ok
    /\ ZstdDecompress(IndexFrame(c)).ok
    /\ LET class_stream == ZstdDecompress(ClassFrame(c)).content
           index_stream == ZstdDecompress(IndexFrame(c)).content
       IN  /\ Len(index_stream) >= Len(class_stream)
           /\ \A i \in 1..Len(class_stream) :
                 get_byte_from_class(resonance_map, class_stream[i], index_stream[i]) # IndexError

\* the bytes the two streams of the container stand for
Reconstructed(c) ==
    Reconstruct(ZstdDecompress(ClassFrame(c)).content, ZstdDecompress(IndexFrame(c)).content)

\* the manifest entries whose value differs from the checksum of their block
MismatchingBlocks(c) ==
    LET manifest == ZstdDecompress(ManifestFrame(c)).content
        bytes == Reconstructed(c)
    IN  {i \in 0..((Len(manifest) \div CHECKSUM_SIZE) - 1) :
            FromBytesBE(SubSeq(manifest, i * CHECKSUM_SIZE + 1, (i + 1) * CHECKSUM_SIZE))
                # BlockChecksum(bytes, i)}

\* the header's stream hash differs from the hash of the reconstructed bytes
HashMismatch(c) ==
    FromBytesBE(SubSeq(c, 7, 14)) # _calculate_stream_hash(Reconstructed(c))

\* C15: decode compares the block checksums in ascending block order and its
\* error names the lowest mismatching block, no later block and no stream hash
\* being examined after it; the stream hash is compared only when every block
\* passed, and its mismatch is reported with a different error.
C15_ChecksInOrder ==
    (cdp_pc = "decoded" /\ ReachesChecks(cdp_container))
    => LET mismatching == MismatchingBlocks(cdp_container)
       IN  /\ mismatching # {}
                => /\ cdp_result.status = "raise"
                   /\ cdp_result.msg = "block"
                   /\ cdp_result.block \in mismatching
                   /\ \A j \in mismatching : cdp_result.block <= j
                   /\ cdp_result.blocks_verified = cdp_result.block
                   /\ ~cdp_result.hash_verified
           /\ (mismatching = {} /\ HashMismatch(cdp_container))
                => /\ cdp_result.status = "raise"
                   /\ cdp_result.msg = "hash"
                   /\ cdp_result.msg # "block"
                   /\ cdp_result.block = 0 - 1
           /\ cdp_result.status = "raise" => cdp_result.data = << >>

\* decode reported block 1 or later while a later block and the stream hash
\* were wrong as well
C15_Witness ==
    /\ cdp_pc = "decoded"
    /\ ReachesChecks(cdp_container)
    /\ cdp_result.msg = "block"
    /\ cdp_result.block >= 1
    /\ \E j \in MismatchingBlocks(cdp_container) : j > cdp_result.block
    /\ HashMismatch(cdp_container)

\* C16: a container whose blocks were reordered, the manifest permuted
\* accordingly and the blocks not all identical, is rejected by decode with the
\* stream-hash mismatch.
C16_ReorderingCaught ==
    (cdp_pc = "decoded" /\ cdp_altered = "reorder")
    => /\ cdp_result.status = "raise"
       /\ cdp_result.msg = "hash"
       /\ cdp_result.data = << >>

\* the value is one the declared type can hold
FitsType(type, value) ==
    IF type = "uint64" THEN value.t = "int" /\ value.v[1] >= 0
    ELSE IF type = "uint8" THEN value.t = "int" /\ value.v[1] \in 0..255
    ELSE IF type = "bool" THEN value.t = "bool"
    ELSE IF type = "string_utf8"
    THEN value.t = "str" /\ \A i \in 1..Len(value.v) : ~IsSurrogate(value.v[i])
    ELSE \/ value.t = "int"
         \/ value.t = "float" /\ (value.v[2] < 1023 + 128 \/ value.v[2] = 2047)

\* the record lacks a field of the writer's schema, or holds an unfit value for one
Unencodable ==
    \E i \in 1..Len(rec_writer.fields) :
        LET field == rec_writer.fields[i]
        IN  \/ field.name.s \notin DOMAIN rec_object
            \/ ~FitsType(field.type.s, rec_object[field.name.s])

\* exception classes that are ValueError or derive from it
ValueErrors == {"ValueError", "UnicodeEncodeError"}

\* C17: StructuredEncoder.encode fails and returns no container when the record
\* lacks a field of the schema or holds a value its declared type cannot
\* represent, and both cases raise the same kind of error (the ValueError of
\* the missing field).
C17_EncodingErrors ==
    (rec_pc # "start" /\ Unencodable)
    => /\ rec_pc = "failed"
       /\ rec_encoded.exc \in ValueErrors
       /\ rec_encoded.payload = << >>

\* the payload bytes of field i of the writer's schema
PayloadOf(i) ==
    _serialize_field(rec_writer.fields[i], rec_object[rec_writer.fields[i].name.s]).bytes

\* where the triple of field i starts: 5 + payload length for every field before it
TripleStart(i) ==
    RangeSum([k \in 1..Len(rec_writer.fields) |-> HEADER_SIZE + Len(PayloadOf(k))], 1, i - 1)

\* C18: the stream handed to the CDP encoder is the concatenation, in schema
\* field order, of exactly one triple per field: the grade in 1 byte, the
\* payload length in 4 bytes big-endian, the payload; its length is the sum
\* over the fields of 5 + payload length.
C18_StreamLayout ==
    (rec_pc # "start" /\ rec_altered = "none" /\ rec_encoded.exc = "none")
    => LET stream == rec_encoded.stream
           n == Len(rec_writer.fields)
       IN  /\ Len(stream) = TripleStart(n + 1)
           /\ \A i \in 1..n :
                 LET at == TripleStart(i)
                 IN  /\ stream[at + 1] = IntValue(rec_writer.fields[i].grade)
                     /\ FromBytesBE(SubSeq(stream, at + 2, at + 5)) = Len(PayloadOf(i))
                     /\ SubSeq(stream, at + 6, at + 5 + Len(PayloadOf(i))) = PayloadOf(i)
           /\ rec_encoded.payload = encode(stream)

\* a record of three fields with a string among them was encoded
C18_Witness ==
    /\ rec_pc = "encoded"
    /\ rec_altered = "none"
    /\ rec_encoded.exc = "none"
    /\ Len(rec_writer.fields) = 3
    /\ rec_writer.fields[2].type.s = "string_utf8"
    /\ Len(rec_encoded.stream) > 3 * HEADER_SIZE + 2

\* walking the triples from position on (from 0) meets a header of fewer than
\* 5 bytes or a payload length that passes the end of the stream
RECURSIVE MalformedFrom(_, _)
MalformedFrom(stream, position) ==
    IF position >= Len(stream) THEN FALSE
    ELSE IF position + HEADER_SIZE > Len(stream) THEN TRUE
    ELSE LET payload_len == FromBytesBE(SubSeq(stream, position + 2, position + 5))
         IN  IF payload_len > Len(stream) - position - HEADER_SIZE THEN TRUE
             ELSE MalformedFrom(stream, position + HEADER_SIZE + payload_len)

\* C19: project raises the malformed-stream error and returns no field map
\* whenever the verified stream holds a position where a header is expected
\* and fewer than 5 bytes remain, or a declared payload length passes the end
\* of the stream, in a requested or in a skipped triple.
C19_MalformedStreamRejected ==
    (rec_pc = "projected" /\ MalformedFrom(rec_decoder.uncompressed_stream, 0))
    => /\ rec_result.exc = "ValueError"
       /\ rec_result.why \in {"incomplete header", "payload length"}
       /\ rec_result.extracted_data = << >>

\* decode of the container completes with every manifest entry and the stream
\* hash matching the bytes it reconstructs
PassesBothChecks(c) ==
    /\ ReachesChecks(c)
    /\ MismatchingBlocks(c) = {}
    /\ ~HashMismatch(c)

\* C20: verify before extract. A StructuredDecoder exists, and project runs,
\* only for a container on which decode completed with both checks passed,
\* and its stream is the bytes decode returned; when decode fails the
\* construction fails and nothing is ever projected.
C20_VerifyBeforeExtract ==
    /\ rec_pc \in {"verified", "projected"}
          => /\ rec_decoder.exc = "none"
             /\ PassesBothChecks(rec_encoded.payload)
             /\ rec_decoder.uncompressed_stream = Reconstructed(rec_encoded.payload)
             /\ rec_decoder.stream_length = Len(rec_decoder.uncompressed_stream)
    /\ (rec_pc = "failed" /\ rec_encoded.exc = "none")
          => /\ ~PassesBothChecks(rec_encoded.payload)
             /\ rec_decoder.exc # "none"
             /\ rec_decoder.uncompressed_stream = << >>
    /\ rec_pc # "projected" => rec_result = NoProjection

\* the construction of a decoder failed on a container whose stream hash or
\* class stream was damaged in transit
C20_Witness ==
    /\ rec_pc = "failed"
    /\ rec_altered = "payload"
    /\ rec_encoded.exc = "none"
    /\ rec_decoder.exc = "ValueError"
    /\ ReachesChecks(rec_encoded.payload)
    /\ rec_result = NoProjection

\* the one load of the process raised
LoadFailed == tbl_class.loads > 0 /\ tbl_map.raised

\* C21: the table is loaded at most once per process and every ResonanceMap()
\* call returns the one instance; a failed load (file absent, or not 256 bytes
\* and 96 classes) is fatal: once it failed, no ResonanceMap() call returns an
\* object instead of raising.
C21_InitializeOnce ==
    /\ tbl_class.loads <= 1
    /\ tbl_class.instance = "None" => (tbl_class.calls = 0 /\ tbl_map = NoMap)
    /\ LoadFailed => tbl_class.last = "RuntimeError"

\* what the call of thread t returns or raises when it runs alone
Alone(t) ==
    IF thr_call[t].kind = "encode" THEN Return(encode(thr_call[t].input), 0)
    ELSE decode(thr_call[t].input)

\* C22: whatever the interleaving of the statements of encode and decode calls
\* made by several threads on codec instances of their own, every call ends
\* with the container, the bytes or the error it gives when run alone, and
\* the classification table and the resonance cache stay as the import left
\* them.
C22_Stateless ==
    /\ \A t \in Threads : thr_pc[t] = "done" => thr_out[t] = Alone(t)
    /\ thr_table = resonance_map
    /\ thr_cache = ImportedCache

\* an encode call has ended while the decode call of another thread, begun
\* before, was still between its statements
C22_Witness ==
    \E t, u \in Threads :
        /\ thr_call[t].kind = "encode" /\ Len(thr_call[t].input) = 3
        /\ thr_pc[t] = "done" /\ thr_out[t] = Alone(t)
        /\ thr_call[u].kind = "decode"
        /\ thr_pc[u] \in {"decompressed", "reconstructed", "checking"}

\* the two buffers have one length and, position by position, bytes of one class
SameClassStream(a, b) ==
    /\ Len(a) = Len(b)
    /\ \A i \in 1..Len(a) : BYTE_TO_CLASS_ID[a[i] + 1] = BYTE_TO_CLASS_ID[b[i] + 1]

\* C23: when the index stream of a container is exchanged for another one
\* that is valid for the same class stream, the bytes it then stands for have
\* the block checksums and the stream hash of the encoded buffer, and decode
\* passes every check and returns them.
C23_ClassStreamOnly ==
    (cdp_altered = "index" /\ ReachesChecks(cdp_container)) =>
        LET other == Reconstructed(cdp_container)
        IN  /\ SameClassStream(other, cdp_data)
            /\ \A i \in 0..(NumBlocks(Len(other)) - 1) :
                  BlockChecksum(other, i) = BlockChecksum(cdp_data, i)
            /\ _calculate_stream_hash(other) = _calculate_stream_hash(cdp_data)
            /\ MismatchingBlocks(cdp_container) = {} /\ ~HashMismatch(cdp_container)
            /\ Decoded => cdp_result = Return(other, NumBlocks(Len(other)))

\* decode returned a two-block buffer that differs from the encoded one in
\* both blocks and has its class stream
C23_Witness ==
    /\ Decoded /\ cdp_altered = "index" /\ cdp_result.status = "ok"
    /\ Len(cdp_data) = MaxBlocks * BLOCK_SIZE
    /\ cdp_result.data[1] # cdp_data[1]
    /\ cdp_result.data[Len(cdp_data)] # cdp_data[Len(cdp_data)]
    /\ SameClassStream(cdp_result.data, cdp_data)

\* the iterations of the loop of project that ran to their end
Completed(result) == result.iterations - (IF result.exc = "none" THEN 0 ELSE 1)

\* every iteration of project that runs to its end moves the position on by
\* at least the header size, never past the end of the stream
Advancing ==
    /\ Completed(rec_result) >= 0
    /\ HEADER_SIZE * Completed(rec_result) <= rec_result.position
    /\ rec_result.position <= rec_decoder.stream_length
    /\ rec_result.exc = "none" => rec_result.position = rec_decoder.stream_length

\* C24 as stated: project ends after at most floor(stream_length / 5)
\* iterations of its loop, the one that raises included, with the position at
\* the stream length or with an error.
C24_IterationBound ==
    rec_pc = "projected" =>
        /\ Advancing
        /\ rec_result.iterations <= rec_decoder.stream_length \div HEADER_SIZE

\* C24: every iteration of project either moves the position on by at least 5
\* and at most to the stream length, or raises; project ends after at most
\* floor(stream_length / 5) iterations that move the position on and at most
\* one more that raises, with the position at the stream length or with an
\* error.
C24_ProjectTerminates ==
    rec_pc = "projected" =>
        /\ Advancing
        /\ Completed(rec_result) <= rec_decoder.stream_length \div HEADER_SIZE
        /\ rec_result.iterations
              <= (rec_decoder.stream_length \div HEADER_SIZE)
                    + (IF rec_result.exc = "none" THEN 0 ELSE 1)

\* project raised in the iteration after floor(stream_length / 5) iterations
\* had moved the position on
C24_Witness ==
    /\ rec_pc = "projected"
    /\ rec_result.exc = "ValueError"
    /\ Completed(rec_result) >= 1
    /\ rec_result.iterations = (rec_decoder.stream_length \div HEADER_SIZE) + 1

====
